---- MODULE Spec2Model ----
(***************************************************************************)
(* A model of imessage-cli's MessageWatcher (src/imessage_cli/watcher.py): *)
(* the external message store, the caller's start()/stop() and the poll    *)
(* threads running _poll_loop, interleaved at every store read.            *)
(***************************************************************************)
EXTENDS Integers, Sequences, FiniteSets, TLC

\* ------------------------------------------------------------------ bounds
\* Messages the store ever holds (ROWIDs 1..MaxMsgs).
MaxMsgs == 2
\* Distinct values of message.date.
MaxDate == 2
\* start() calls made by the caller; each may create one poll thread.
MaxStarts == 2
\* Callbacks registered with on_new_messages / on_conversations_updated / on_error.
NumMsgObs == 2
NumConvObs == 1
NumErrObs == 1

MsgIds == 1..MaxMsgs
Threads == 1..MaxStarts
MsgObs == 1..NumMsgObs
ConvObs == 1..NumConvObs
ErrObs == 1..NumErrObs

VARIABLES
    store,            \* chat.db's message table: store[rowid] = message.date
    mtime,            \* chat.db's modification time
    running,          \* MessageWatcher._running
    thread,           \* MessageWatcher._thread (0 = None)
    last_message_id,  \* MessageWatcher._last_message_id
    last_mtime,       \* MessageWatcher._last_mtime
    mainPc,           \* where the caller of start()/stop() is
    tpc,              \* where each poll thread is in _poll_loop
    current_max_id,   \* _poll_loop's local current_max_id, per thread
    calls,            \* observer invocations of each thread's current tick, in order
    starts,           \* start() calls made so far
    startHi,          \* the store's highest ROWID when start() last read its baseline
    count,            \* count[id]: batches handed to observers that held id (2 = more)
    timedOut          \* some stop() returned on its join timeout

\* The terminal application (src/imessage_cli/tui.py).
VARIABLES
    input_box,        \* MessagesTUI.input_box, a MultiLineInputBox: lines, cursor, history
    ret,              \* what the last editor call returned (<<>> = None, <<text>>)
    trip,             \* an insertion being undone by backspaces: the buffer before it
    tui,              \* the MessagesTUI object's attributes
    getch,            \* run()'s local key: what stdscr.getch() returned last
    loopPc,           \* where run() is: "init", "drain", "getch", "exited", "crashed"
    update_queue,     \* MessagesTUI.update_queue
    dispatch,         \* the send_message call of the last submit (<<>> = none made)
    enqueued,         \* every payload put on update_queue so far, in order
    applied           \* every payload _process_updates has handled so far, in order

watcherVars == <<store, mtime, running, thread, last_message_id, last_mtime, mainPc, tpc,
                 current_max_id, calls, starts, startHi, count, timedOut>>

editVars == <<input_box, ret, trip>>

appVars == <<tui, getch, loopPc, update_queue, dispatch, enqueued, applied>>

tuiVars == <<editVars, appVars>>

vars == <<watcherVars, tuiVars>>

storeVars == <<store, mtime>>
localVars == <<current_max_id, calls>>

\* ------------------------------------------------------------- store reads
Range(s) == {s[i] : i \in DOMAIN s}

\* SELECT MAX(ROWID) FROM message; 0 when the read raises.
_get_last_message_id(ok) == IF ok THEN Len(store) ELSE 0

\* os.path.getmtime(db_path); 0.0 when the read raises.
_get_db_mtime(ok) == IF ok THEN mtime ELSE 0

\* WHERE m.ROWID > since_id ORDER BY m.date ASC: every ordering of the newer
\* rows with non-decreasing dates (SQL leaves the order of equal dates open).
get_new_messages(since_id) ==
    LET ids == {i \in 1..Len(store) : i > since_id}
        n == Cardinality(ids)
    IN {s \in [1..n -> ids] :
            /\ \A i, j \in 1..n : i # j => s[i] # s[j]
            /\ \A i, j \in 1..n : i < j => store[s[i]] <= store[s[j]]}

\* The conversation summaries, rebuilt from the whole store.
get_conversations == <<[chat_id |-> 1, messages |-> Len(store)]>>

\* ---------------------------------------------------------------- observers
\* _notify_error without its inner try/except: a raising error callback escapes.
_notify_error_unguarded(errRaises) == IF errRaises THEN "raised" ELSE "caught"

\* _notify_error: every error callback is called; one that raises is swallowed.
_notify_error(errRaises) == "caught"

ErrCalls == [e \in ErrObs |-> [kind |-> "err", obs |-> e, arg |-> <<>>]]

\* The callback loop without its inner try/except: the first callback that
\* raises ends the loop, and the tick's handler reports the error.
MsgCalls_unguarded(i, batch, raisers) ==
    IF i > NumMsgObs THEN <<>>
    ELSE IF i \in raisers
         THEN <<[kind |-> "msg", obs |-> i, arg |-> batch]>> \o ErrCalls
         ELSE <<[kind |-> "msg", obs |-> i, arg |-> batch]>>

\* for callback in self._callbacks: try: callback(new_messages) except: _notify_error
RECURSIVE MsgCalls(_, _, _)
MsgCalls(i, batch, raisers) ==
    IF i > NumMsgObs THEN <<>>
    ELSE <<[kind |-> "msg", obs |-> i, arg |-> batch]>>
         \o (IF i \in raisers THEN ErrCalls ELSE <<>>)
         \o MsgCalls(i + 1, batch, raisers)

\* for callback in self._conversation_callbacks: try: callback(conversations) ...
RECURSIVE ConvCalls(_, _, _)
ConvCalls(i, convs, raisers) ==
    IF i > NumConvObs THEN <<>>
    ELSE <<[kind |-> "conv", obs |-> i, arg |-> convs]>>
         \o (IF i \in raisers THEN ErrCalls ELSE <<>>)
         \o ConvCalls(i + 1, convs, raisers)

Bump(c, ids) == [i \in MsgIds |-> IF i \in ids THEN (IF c[i] >= 1 THEN 2 ELSE 1) ELSE c[i]]

\* ------------------------------------------------------------------- text
\* A str is a sequence of one-character strings.
NL == "\n"
Whitespace == {" ", NL}

\* text.split("\n")
RECURSIVE split(_)
split(text) ==
    IF \A i \in DOMAIN text : text[i] # NL
    THEN <<text>>
    ELSE LET i == CHOOSE j \in DOMAIN text :
                     text[j] = NL /\ \A k \in 1..(j - 1) : text[k] # NL
         IN <<SubSeq(text, 1, i - 1)>> \o split(SubSeq(text, i + 1, Len(text)))

\* "\n".join(lines)
RECURSIVE join(_)
join(lines) ==
    IF lines = <<>> THEN <<>>
    ELSE IF Len(lines) = 1 THEN lines[1]
    ELSE lines[1] \o <<NL>> \o join(Tail(lines))

\* s.rstrip("\n")
RECURSIVE rstrip(_)
rstrip(s) ==
    IF s # <<>> /\ s[Len(s)] = NL THEN rstrip(SubSeq(s, 1, Len(s) - 1)) ELSE s

\* bool(text.strip())
strip(text) == \E i \in DOMAIN text : text[i] \notin Whitespace

\* ------------------------------------------------------ MultiLineInputBox
\* Keys, as getch() reports them.
KEY_BACKSPACE == "KEY_BACKSPACE"
KEY_DC == "KEY_DC"
KEY_LEFT == "KEY_LEFT"
KEY_RIGHT == "KEY_RIGHT"
KEY_UP == "KEY_UP"
KEY_DOWN == "KEY_DOWN"
KEY_HOME == "KEY_HOME"
KEY_END == "KEY_END"
KEY_ENTER == "KEY_ENTER"
CTRL_A == "CTRL_A"
CTRL_E == "CTRL_E"
CTRL_U == "CTRL_U"
CTRL_W == "CTRL_W"
CTRL_K == "CTRL_K"
ENTER_KEYS == {"10", "13"}
TAB == "9"
ESCAPE == "27"
\* Keys below 256 whose character is printable; each is its own character.
Printable == {"a", " ", "i", "h", "l", "j", "k", "r", "g", "G", "q", "Q", "?"}

\* history_idx is None when no history entry is being recalled.
None == -1

\* The editor as __init__ leaves it.
MultiLineInputBox ==
    [lines |-> << <<>> >>, cursor_row |-> 0, cursor_col |-> 0,
     history |-> <<>>, history_idx |-> None]

\* self.lines[self.cursor_row]
Line(b) == b.lines[b.cursor_row + 1]

\* lines with the line at (0-based) row r replaced by s
SetLine(lines, r, s) == [lines EXCEPT ![r + 1] = s]

\* lines.pop(r), the list that is left
Pop(lines, r) == SubSeq(lines, 1, r) \o SubSeq(lines, r + 2, Len(lines))

get_text(b) == rstrip(join(b.lines))

set_text(b, text) ==
    LET ls == IF split(text) = <<>> THEN << <<>> >> ELSE split(text)
    IN [b EXCEPT !.lines = ls,
                 !.cursor_row = Len(ls) - 1,
                 !.cursor_col = Len(ls[Len(ls)])]

clear(b) ==
    [b EXCEPT !.lines = << <<>> >>, !.cursor_row = 0, !.cursor_col = 0,
              !.history_idx = None]

\* push_history that appends whatever it is given.
push_history_any(b, text) ==
    [b EXCEPT !.history = Append(b.history, text), !.history_idx = None]

push_history(b, text) ==
    [b EXCEPT !.history =
                 IF strip(text) /\ (b.history = <<>> \/ b.history[Len(b.history)] # text)
                 THEN Append(b.history, text)
                 ELSE b.history,
              !.history_idx = None]

\* recall_history that wraps around at either end of the history.
recall_history_wrapping(b, direction) ==
    IF b.history = <<>> THEN [box |-> b, ret |-> <<>>]
    ELSE IF b.history_idx = None
    THEN IF direction = -1
         THEN [box |-> [b EXCEPT !.history_idx = Len(b.history) - 1],
               ret |-> <<b.history[Len(b.history)]>>]
         ELSE [box |-> b, ret |-> <<>>]
    ELSE LET i == (b.history_idx + direction) % Len(b.history)
         IN [box |-> [b EXCEPT !.history_idx = i], ret |-> <<b.history[i + 1]>>]

\* recall_history: the editor afterwards and the value returned.
recall_history(b, direction) ==
    IF b.history = <<>> THEN [box |-> b, ret |-> <<>>]
    ELSE IF b.history_idx = None
    THEN IF direction = -1
         THEN [box |-> [b EXCEPT !.history_idx = Len(b.history) - 1],
               ret |-> <<b.history[Len(b.history)]>>]
         ELSE [box |-> b, ret |-> <<>>]
    ELSE LET j == b.history_idx + direction
             i == IF j < 0 THEN 0
                  ELSE IF j >= Len(b.history) THEN Len(b.history) - 1 ELSE j
         IN [box |-> [b EXCEPT !.history_idx = i], ret |-> <<b.history[i + 1]>>]

_move_left(b) ==
    IF b.cursor_col > 0 THEN [b EXCEPT !.cursor_col = @ - 1]
    ELSE IF b.cursor_row > 0
    THEN [b EXCEPT !.cursor_row = @ - 1, !.cursor_col = Len(b.lines[b.cursor_row])]
    ELSE b

_move_right(b) ==
    IF b.cursor_col < Len(Line(b)) THEN [b EXCEPT !.cursor_col = @ + 1]
    ELSE IF b.cursor_row < Len(b.lines) - 1
    THEN [b EXCEPT !.cursor_row = @ + 1, !.cursor_col = 0]
    ELSE b

Min(x, y) == IF x <= y THEN x ELSE y
Max(x, y) == IF x >= y THEN x ELSE y

\* _move_up without the clamp of the column to the line above.
_move_up_unclamped(b) ==
    IF b.cursor_row > 0 THEN [b EXCEPT !.cursor_row = @ - 1] ELSE b

_move_up(b) ==
    IF b.cursor_row > 0
    THEN [b EXCEPT !.cursor_row = @ - 1,
                   !.cursor_col = Min(b.cursor_col, Len(b.lines[b.cursor_row]))]
    ELSE b

_move_down(b) ==
    IF b.cursor_row < Len(b.lines) - 1
    THEN [b EXCEPT !.cursor_row = @ + 1,
                   !.cursor_col = Min(b.cursor_col, Len(b.lines[b.cursor_row + 2]))]
    ELSE b

\* _delete_backwards that leaves the column where it was.
_delete_backwards_keepcol(b) ==
    IF b.cursor_col > 0
    THEN [b EXCEPT !.lines = SetLine(b.lines, b.cursor_row,
                                SubSeq(Line(b), 1, b.cursor_col - 1)
                                \o SubSeq(Line(b), b.cursor_col + 1, Len(Line(b))))]
    ELSE b

_delete_backwards(b) ==
    IF b.cursor_col > 0
    THEN [b EXCEPT !.lines = SetLine(b.lines, b.cursor_row,
                                SubSeq(Line(b), 1, b.cursor_col - 1)
                                \o SubSeq(Line(b), b.cursor_col + 1, Len(Line(b)))),
                   !.cursor_col = @ - 1]
    ELSE IF b.cursor_row > 0
    THEN LET prev == b.lines[b.cursor_row]
             cur == Line(b)
         IN [b EXCEPT !.lines = SetLine(Pop(b.lines, b.cursor_row),
                                        b.cursor_row - 1, prev \o cur),
                      !.cursor_row = @ - 1,
                      !.cursor_col = Len(prev)]
    ELSE b

\* while i > 0 and line[i - 1].isspace(): i -= 1
RECURSIVE SkipSpace(_, _)
SkipSpace(line, i) ==
    IF i > 0 /\ line[i] \in Whitespace THEN SkipSpace(line, i - 1) ELSE i

\* while i > 0 and not line[i - 1].isspace(): i -= 1
RECURSIVE SkipWord(_, _)
SkipWord(line, i) ==
    IF i > 0 /\ line[i] \notin Whitespace THEN SkipWord(line, i - 1) ELSE i

_delete_word_backwards(b) ==
    IF b.cursor_col = 0 /\ b.cursor_row > 0
    THEN LET prev == b.lines[b.cursor_row]
         IN [b EXCEPT !.lines = Pop(SetLine(b.lines, b.cursor_row - 1, prev \o Line(b)),
                                    b.cursor_row),
                      !.cursor_row = @ - 1,
                      !.cursor_col = Len(prev)]
    ELSE LET i == SkipWord(Line(b), SkipSpace(Line(b), b.cursor_col))
         IN [b EXCEPT !.lines = SetLine(b.lines, b.cursor_row,
                                   SubSeq(Line(b), 1, i)
                                   \o SubSeq(Line(b), b.cursor_col + 1, Len(Line(b)))),
                      !.cursor_col = i]

_kill_to_end(b) ==
    [b EXCEPT !.lines = SetLine(b.lines, b.cursor_row, SubSeq(Line(b), 1, b.cursor_col))]

\* handle_key's KEY_DC branch
DeleteAtCursor(b) ==
    IF b.cursor_col < Len(Line(b))
    THEN [b EXCEPT !.lines = SetLine(b.lines, b.cursor_row,
                                SubSeq(Line(b), 1, b.cursor_col)
                                \o SubSeq(Line(b), b.cursor_col + 2, Len(Line(b))))]
    ELSE IF b.cursor_row < Len(b.lines) - 1
    THEN LET nxt == b.lines[b.cursor_row + 2]
         IN [b EXCEPT !.lines = SetLine(Pop(b.lines, b.cursor_row + 1),
                                        b.cursor_row, Line(b) \o nxt)]
    ELSE b

_insert_text(b, s) ==
    [b EXCEPT !.lines = SetLine(b.lines, b.cursor_row,
                           SubSeq(Line(b), 1, b.cursor_col) \o s
                           \o SubSeq(Line(b), b.cursor_col + 1, Len(Line(b)))),
              !.cursor_col = @ + Len(s)]

\* handle_key's KEY_UP and KEY_DOWN branches: move inside the buffer, or
\* recall history at its first (last) line.
Recall(b, direction) ==
    LET r == recall_history(b, direction)
    IN IF r.ret # <<>> THEN set_text(r.box, r.ret[1]) ELSE r.box

\* Enter that breaks the line at the cursor and returns nothing.
Submit_breaking(b) ==
    [box |-> [b EXCEPT !.lines = SubSeq(b.lines, 1, b.cursor_row)
                                 \o <<SubSeq(Line(b), 1, b.cursor_col),
                                      SubSeq(Line(b), b.cursor_col + 1, Len(Line(b)))>>
                                 \o SubSeq(b.lines, b.cursor_row + 2, Len(b.lines)),
                       !.cursor_row = @ + 1,
                       !.cursor_col = 0],
     ret |-> <<>>]

\* Enter that clears the buffer as it returns the text.
Submit_clearing(b) == [box |-> clear(b), ret |-> <<get_text(b)>>]

\* handle_key's Enter branches: the text is returned, the buffer stays.
Submit(b) == [box |-> b, ret |-> <<get_text(b)>>]

\* handle_key: the editor afterwards and the value returned (<<>> = None).
handle_key(b, key) ==
    IF key \in ENTER_KEYS \/ key = KEY_ENTER THEN Submit(b)
    ELSE [ret |-> <<>>,
          box |->
            IF key \in {KEY_BACKSPACE, "127", "8"} THEN _delete_backwards(b)
            ELSE IF key = KEY_DC THEN DeleteAtCursor(b)
            ELSE IF key = KEY_LEFT THEN _move_left(b)
            ELSE IF key = KEY_RIGHT THEN _move_right(b)
            ELSE IF key = KEY_UP
                 THEN IF b.cursor_row > 0 THEN _move_up(b) ELSE Recall(b, -1)
            ELSE IF key = KEY_DOWN
                 THEN IF b.cursor_row < Len(b.lines) - 1 THEN _move_down(b)
                      ELSE Recall(b, 1)
            ELSE IF key \in {KEY_HOME, CTRL_A} THEN [b EXCEPT !.cursor_col = 0]
            ELSE IF key \in {KEY_END, CTRL_E} THEN [b EXCEPT !.cursor_col = Len(Line(b))]
            ELSE IF key = CTRL_U THEN clear(b)
            ELSE IF key = CTRL_W THEN _delete_word_backwards(b)
            ELSE IF key = CTRL_K THEN _kill_to_end(b)
            ELSE IF key = TAB THEN _insert_text(b, <<" ", " ", " ", " ">>)
            ELSE IF key \in Printable THEN _insert_text(b, <<key>>)
            ELSE b]

\* ------------------------------------------------------------- MessagesTUI
\* self.status_win before anything is drawn on it.
Blank == [attr |-> "none", text |-> ""]

\* The layout that narrows the list panel and never drops it.
_setup_windows_narrowing(s, h, w) ==
    LET cw == IF w < 80 THEN Min(20, Max(10, w \div 4)) ELSE Min(35, Max(20, w \div 3))
    IN [s EXCEPT !.height = h, !.width = w,
                 !.conv_width = cw, !.msg_width = w - cw,
                 !.msg_height = Max(5, h - 4),
                 !.conv_win = "window"]

\* _setup_windows: the layout for a terminal of height h and width w. The
\* list panel takes a third of the width, a quarter below 80 columns, and is
\* dropped below 60. (It also makes a new input box: see Resize.)
_setup_windows(s, h, w) ==
    LET narrow == Min(20, Max(10, w \div 4))
        cw == IF w < 60 THEN 0
              ELSE IF w < 80 THEN narrow
              ELSE Min(35, Max(20, w \div 3))
        mw == IF w < 60 THEN w
              ELSE IF w < 80 THEN w - narrow
              ELSE Max(20, w - Min(35, Max(20, w \div 3)))
    IN [s EXCEPT !.height = h, !.width = w,
                 !.conv_width = cw, !.msg_width = mw,
                 !.msg_height = Max(5, h - 4),
                 !.conv_win = IF cw > 0 THEN "window" ELSE "None"]

\* MessagesTUI.__init__ on a terminal of height h and width w.
MessagesTUI(h, w) ==
    _setup_windows(
        [conversations |-> <<>>, messages |-> <<>>, selected_conv_idx |-> 0,
         selected_chat_id |-> None, message_scroll |-> 0, conv_scroll |-> 0,
         focus |-> "conversations", status_message |-> "", error_message |-> "",
         show_help |-> FALSE, running |-> TRUE,
         height |-> 0, width |-> 0, conv_width |-> 0, msg_width |-> 0,
         msg_height |-> 0, conv_win |-> "None", status_win |-> Blank],
        h, w)

_visible_message_lines(s) == Max(1, s.msg_height - 2)

\* The display lines the message list renders to (all_lines in _draw_messages).
RECURSIVE total_lines(_)
total_lines(messages) ==
    IF messages = <<>> THEN 0 ELSE Head(messages).rows + total_lines(Tail(messages))

\* _draw_conversations: keeps the selected conversation inside the visible rows.
_draw_conversations(s) ==
    IF s.conv_win = "None" \/ s.conversations = <<>> THEN s
    ELSE LET visible_height == s.msg_height - 2
         IN IF s.selected_conv_idx < s.conv_scroll
            THEN [s EXCEPT !.conv_scroll = s.selected_conv_idx]
            ELSE IF s.selected_conv_idx >= s.conv_scroll + visible_height
            THEN [s EXCEPT !.conv_scroll = s.selected_conv_idx - visible_height + 1]
            ELSE s

\* _draw_messages: clamps the scroll offset to the rendered lines.
_draw_messages(s) ==
    IF s.messages = <<>> THEN s
    ELSE LET visible_height == s.msg_height - 2
             max_scroll == Max(0, total_lines(s.messages) - visible_height)
         IN [s EXCEPT !.message_scroll = Min(s.message_scroll, max_scroll)]

\* _draw_status: shows the error, else the status, else the focus hint, and
\* clears both texts.
_draw_status(s) ==
    [s EXCEPT !.status_win =
                 IF s.error_message # "" THEN [attr |-> "error", text |-> s.error_message]
                 ELSE IF s.status_message # ""
                 THEN [attr |-> "status", text |-> s.status_message]
                 ELSE [attr |-> "hint", text |-> s.focus],
              !.status_message = "",
              !.error_message = ""]

\* draw_all (the input window and the help overlay hold no state of their own).
draw_all(s) == _draw_status(_draw_messages(_draw_conversations(s)))

\* _select_conversation(idx), fetched being what get_messages returns.
_select_conversation(s, idx, fetched) ==
    IF 0 <= idx /\ idx < Len(s.conversations)
    THEN LET t == [s EXCEPT !.selected_conv_idx = idx,
                            !.selected_chat_id = s.conversations[idx + 1].chat_id,
                            !.messages = fetched]
         IN _draw_messages(_draw_conversations(
               [t EXCEPT !.message_scroll =
                            Max(0, Len(fetched) - _visible_message_lines(t))]))
    ELSE s

\* The conversation on the selected row of the list.
FindConversation_selected_row(s) ==
    IF s.selected_conv_idx < Len(s.conversations)
    THEN <<s.conversations[s.selected_conv_idx + 1]>>
    ELSE <<>>

\* next((c for c in self.conversations if c.chat_id == self.selected_chat_id), None)
FindConversation(s) ==
    LET hits == {i \in DOMAIN s.conversations :
                    s.conversations[i].chat_id = s.selected_chat_id}
    IN IF hits = {} THEN <<>>
       ELSE <<s.conversations[CHOOSE i \in hits : \A j \in hits : i <= j]>>

\* _send_current_message without its try / except: what send_message raises
\* leaves the method.
_send_current_message_unguarded(s, text, outcome) ==
    IF ~strip(text) THEN [tui |-> s, success |-> FALSE, call |-> <<>>, raised |-> FALSE]
    ELSE IF s.selected_chat_id \in {None, 0} \/ s.conversations = <<>>
    THEN [tui |-> [s EXCEPT !.error_message = "No conversation selected"],
          success |-> FALSE, call |-> <<>>, raised |-> FALSE]
    ELSE IF FindConversation(s) = <<>>
    THEN [tui |-> [s EXCEPT !.error_message = "Conversation not found"],
          success |-> FALSE, call |-> <<>>, raised |-> FALSE]
    ELSE LET call == <<[recipient |-> FindConversation(s)[1].chat_identifier,
                        message |-> text, outcome |-> outcome]>>
         IN IF outcome = "True"
            THEN [tui |-> [s EXCEPT !.status_message = "Message sent!"],
                  success |-> TRUE, call |-> call, raised |-> FALSE]
            ELSE IF outcome = "False"
            THEN [tui |-> [s EXCEPT !.error_message = "Failed to send message"],
                  success |-> FALSE, call |-> call, raised |-> FALSE]
            ELSE [tui |-> s, success |-> FALSE, call |-> call, raised |-> TRUE]

\* _send_current_message(text): the application afterwards, the value returned,
\* the send_message call made (<<>> = none) and whether an exception left the
\* method. outcome is what send_message does: it returns "True" or "False",
\* or it raises, which the except Exception clause turns into an error text.
_send_current_message(s, text, outcome) ==
    IF ~strip(text) THEN [tui |-> s, success |-> FALSE, call |-> <<>>, raised |-> FALSE]
    ELSE IF s.selected_chat_id \in {None, 0} \/ s.conversations = <<>>
    THEN [tui |-> [s EXCEPT !.error_message = "No conversation selected"],
          success |-> FALSE, call |-> <<>>, raised |-> FALSE]
    ELSE IF FindConversation(s) = <<>>
    THEN [tui |-> [s EXCEPT !.error_message = "Conversation not found"],
          success |-> FALSE, call |-> <<>>, raised |-> FALSE]
    ELSE LET call == <<[recipient |-> FindConversation(s)[1].chat_identifier,
                        message |-> text, outcome |-> outcome]>>
         IN IF outcome = "True"
            THEN [tui |-> [s EXCEPT !.status_message = "Message sent!"],
                  success |-> TRUE, call |-> call, raised |-> FALSE]
            ELSE IF outcome = "False"
            THEN [tui |-> [s EXCEPT !.error_message = "Failed to send message"],
                  success |-> FALSE, call |-> call, raised |-> FALSE]
            ELSE [tui |-> [s EXCEPT !.error_message = "Send error"],
                  success |-> FALSE, call |-> call, raised |-> FALSE]

\* getch() returned -1: no key within the timeout.
NoKey == "-1"

\* No insertion is being undone.
NoTrip ==
    [on |-> FALSE, lines |-> <<>>, cursor_row |-> 0, cursor_col |-> 0,
     n |-> 0, owed |-> 0, deleting |-> FALSE]

\* --------------------------------------------------------------------- Init
Init ==
    /\ store = <<>>
    /\ mtime = 1
    /\ running = FALSE
    /\ thread = 0
    /\ last_message_id = 0
    /\ last_mtime = 0
    /\ mainPc = "idle"
    /\ tpc = [t \in Threads |-> "unborn"]
    /\ current_max_id = [t \in Threads |-> 0]
    /\ calls = [t \in Threads |-> <<>>]
    /\ starts = 0
    /\ startHi = 0
    /\ count = [i \in MsgIds |-> 0]
    /\ timedOut = FALSE
    /\ input_box = MultiLineInputBox
    /\ ret = <<>>
    /\ trip = NoTrip
    /\ tui = MessagesTUI(24, 80)
    /\ getch = NoKey
    /\ loopPc = "init"
    /\ update_queue = <<>>
    /\ dispatch = <<>>
    /\ enqueued = <<>>
    /\ applied = <<>>

\* ---------------------------------------------------------------- the store
\* Another process appends a message: the next ROWID, a date among dates, a
\* newer mtime.
StoreAppend(dates) ==
    /\ Len(store) < MaxMsgs
    /\ \E d \in dates : store' = Append(store, d)
    /\ mtime' = mtime + 1
    /\ UNCHANGED <<running, thread, last_message_id, last_mtime, mainPc, tpc,
                   localVars, starts, startHi, count, timedOut>>
    /\ UNCHANGED tuiVars

\* ------------------------------------------------------------------ start()
\* start() without its "if self._running: return".
Start_unguarded(OK) ==
    /\ mainPc = "idle"
    /\ starts < MaxStarts
    /\ starts' = starts + 1
    /\ \E ok \in OK :
          /\ last_message_id' = _get_last_message_id(ok)
          /\ startHi' = Len(store)
          /\ mainPc' = "start_mtime"
    /\ UNCHANGED <<storeVars, running, thread, last_mtime, tpc, localVars, count, timedOut>>
    /\ UNCHANGED tuiVars

\* start(), up to the baseline read of the highest ROWID. OK holds the outcomes
\* a store read may have here (TRUE: it succeeds, FALSE: it raises).
Start(OK) ==
    /\ mainPc = "idle"
    /\ starts < MaxStarts
    /\ starts' = starts + 1
    /\ IF running
       THEN UNCHANGED <<last_message_id, startHi, mainPc>>
       ELSE \E ok \in OK :
               /\ last_message_id' = _get_last_message_id(ok)
               /\ startHi' = Len(store)
               /\ mainPc' = "start_mtime"
    /\ UNCHANGED <<storeVars, running, thread, last_mtime, tpc, localVars, count, timedOut>>
    /\ UNCHANGED tuiVars

\* start(), the rest: the baseline mtime, the flag, the new thread.
StartThread(OK) ==
    /\ mainPc = "start_mtime"
    /\ \E ok \in OK : last_mtime' = _get_db_mtime(ok)
    /\ running' = TRUE
    /\ LET t == CHOOSE u \in Threads :
                   tpc[u] = "unborn" /\ \A v \in Threads : v < u => tpc[v] # "unborn"
       IN /\ thread' = t
          /\ tpc' = [tpc EXCEPT ![t] = "top"]
    /\ mainPc' = "idle"
    /\ UNCHANGED <<storeVars, last_message_id, localVars, starts, startHi, count, timedOut>>
    /\ UNCHANGED tuiVars

\* ------------------------------------------------------------------- stop()
\* stop(), up to the join.
Stop ==
    /\ mainPc = "idle"
    /\ running' = FALSE
    /\ mainPc' = IF thread # 0 THEN "stop_join" ELSE "idle"
    /\ UNCHANGED <<storeVars, thread, last_message_id, last_mtime, tpc, localVars,
                   starts, startHi, count, timedOut>>
    /\ UNCHANGED tuiVars

\* stop() without the join: it returns at once, whatever the thread is doing.
JoinReturn_nowait ==
    /\ mainPc = "stop_join"
    /\ thread' = 0
    /\ mainPc' = "idle"
    /\ UNCHANGED <<storeVars, running, last_message_id, last_mtime, tpc, localVars,
                   starts, startHi, count, timedOut>>
    /\ UNCHANGED tuiVars

\* join(timeout=2.0) returns because the thread has ended.
JoinReturn ==
    /\ mainPc = "stop_join"
    /\ tpc[thread] = "done"
    /\ thread' = 0
    /\ mainPc' = "idle"
    /\ UNCHANGED <<storeVars, running, last_message_id, last_mtime, tpc, localVars,
                   starts, startHi, count, timedOut>>
    /\ UNCHANGED tuiVars

\* join(timeout=2.0) returns on the timeout, the thread still alive: inside a
\* tick's store reads and callbacks, or in a sleep, for longer than the timeout.
JoinTimeout ==
    /\ mainPc = "stop_join"
    /\ tpc[thread] \in {"max", "fetch", "convs", "sleep"}
    /\ thread' = 0
    /\ mainPc' = "idle"
    /\ timedOut' = TRUE
    /\ UNCHANGED <<storeVars, running, last_message_id, last_mtime, tpc, localVars,
                   starts, startHi, count>>
    /\ UNCHANGED tuiVars

\* --------------------------------------------------------------- _poll_loop
\* except Exception as e: self._notify_error(e), then the sleep and the next tick.
AfterError(errRaises) == IF _notify_error(errRaises) = "caught" THEN "sleep" ELSE "done"

\* The tick that takes any mtime other than the last one seen for a change.
Poll_changed(t, OK) ==
    /\ tpc[t] = "top"
    /\ IF ~running
       THEN /\ tpc' = [tpc EXCEPT ![t] = "done"]
            /\ UNCHANGED last_mtime
       ELSE \E ok \in OK :
               IF _get_db_mtime(ok) # last_mtime
               THEN /\ last_mtime' = _get_db_mtime(ok)
                    /\ tpc' = [tpc EXCEPT ![t] = "max"]
               ELSE /\ tpc' = [tpc EXCEPT ![t] = "sleep"]
                    /\ UNCHANGED last_mtime
    /\ UNCHANGED <<storeVars, running, thread, last_message_id, mainPc, localVars,
                   starts, startHi, count, timedOut>>
    /\ UNCHANGED tuiVars

\* while self._running: the mtime read and the comparison with _last_mtime.
Poll(t, OK) ==
    /\ tpc[t] = "top"
    /\ IF ~running
       THEN /\ tpc' = [tpc EXCEPT ![t] = "done"]
            /\ UNCHANGED last_mtime
       ELSE \E ok \in OK :
               IF _get_db_mtime(ok) > last_mtime
               THEN /\ last_mtime' = _get_db_mtime(ok)
                    /\ tpc' = [tpc EXCEPT ![t] = "max"]
               ELSE /\ tpc' = [tpc EXCEPT ![t] = "sleep"]
                    /\ UNCHANGED last_mtime
    /\ UNCHANGED <<storeVars, running, thread, last_message_id, mainPc, localVars,
                   starts, startHi, count, timedOut>>
    /\ UNCHANGED tuiVars

\* current_max_id = self._get_last_message_id() and its comparison.
ReadMax(t, OK) ==
    /\ tpc[t] = "max"
    /\ \E ok \in OK :
          /\ current_max_id' = [current_max_id EXCEPT ![t] = _get_last_message_id(ok)]
          /\ tpc' = [tpc EXCEPT ![t] =
                IF _get_last_message_id(ok) > last_message_id THEN "fetch" ELSE "convs"]
    /\ UNCHANGED <<storeVars, running, thread, last_message_id, last_mtime, mainPc,
                   calls, starts, startHi, count, timedOut>>
    /\ UNCHANGED tuiVars

\* new_messages = self.get_new_messages(self._last_message_id), then
\* self._last_message_id = current_max_id, then the new-message callbacks.
Deliver(t, OK) ==
    /\ tpc[t] = "fetch"
    /\ \E ok \in OK :
          IF ok
          THEN /\ \E new_messages \in get_new_messages(last_message_id) :
                     IF new_messages # <<>>
                     THEN /\ \E raisers \in SUBSET MsgObs :
                                calls' = [calls EXCEPT ![t] =
                                             @ \o MsgCalls(1, new_messages, raisers)]
                          /\ count' = Bump(count, Range(new_messages))
                     ELSE UNCHANGED <<calls, count>>
               /\ last_message_id' = current_max_id[t]
               /\ tpc' = [tpc EXCEPT ![t] = "convs"]
          ELSE /\ \E errRaises \in BOOLEAN :
                     tpc' = [tpc EXCEPT ![t] = AfterError(errRaises)]
               /\ calls' = [calls EXCEPT ![t] = @ \o ErrCalls]
               /\ UNCHANGED <<last_message_id, count>>
    /\ UNCHANGED <<storeVars, running, thread, last_mtime, mainPc,
                   current_max_id, starts, startHi, timedOut>>
    /\ UNCHANGED tuiVars

\* conversations = self.get_conversations(), then the conversation callbacks.
Convs(t, OK) ==
    /\ tpc[t] = "convs"
    /\ \E ok \in OK :
          IF ok
          THEN /\ \E raisers \in SUBSET ConvObs :
                     calls' = [calls EXCEPT ![t] =
                                  @ \o ConvCalls(1, get_conversations, raisers)]
               /\ tpc' = [tpc EXCEPT ![t] = "sleep"]
          ELSE /\ \E errRaises \in BOOLEAN :
                     tpc' = [tpc EXCEPT ![t] = AfterError(errRaises)]
               /\ calls' = [calls EXCEPT ![t] = @ \o ErrCalls]
    /\ UNCHANGED <<storeVars, running, thread, last_message_id, last_mtime, mainPc,
                   current_max_id, starts, startHi, count, timedOut>>
    /\ UNCHANGED tuiVars

\* time.sleep(self.poll_interval); the tick's locals end with the iteration.
Sleep(t) ==
    /\ tpc[t] = "sleep"
    /\ tpc' = [tpc EXCEPT ![t] = "top"]
    /\ current_max_id' = [current_max_id EXCEPT ![t] = 0]
    /\ calls' = [calls EXCEPT ![t] = <<>>]
    /\ UNCHANGED <<storeVars, running, thread, last_message_id, last_mtime, mainPc,
                   starts, startHi, count, timedOut>>
    /\ UNCHANGED tuiVars

ThreadStep(t, OK) ==
    \/ Poll(t, OK)
    \/ ReadMax(t, OK)
    \/ Deliver(t, OK)
    \/ Convs(t, OK)
    \/ Sleep(t)

Next ==
    \/ StoreAppend(1..MaxDate)
    \/ Start(BOOLEAN)
    \/ StartThread(BOOLEAN)
    \/ Stop
    \/ JoinReturn
    \/ JoinTimeout
    \/ \E t \in Threads : ThreadStep(t, BOOLEAN)

Spec == Init /\ [][Next]_vars

\* The watcher kept running with every store read succeeding, the messages
\* dated apart, and the threads scheduled: start() completes and each poll
\* thread takes its next step.
LiveNext ==
    \/ StoreAppend({d \in 1..MaxDate : d \notin Range(store)})
    \/ Start({TRUE})
    \/ StartThread({TRUE})
    \/ \E t \in Threads : ThreadStep(t, {TRUE})

LiveSpec ==
    /\ Init
    /\ [][LiveNext]_vars
    /\ WF_vars(StartThread({TRUE}))
    /\ \A t \in Threads : WF_vars(ThreadStep(t, {TRUE}))

\* ------------------------------------------------------------------ claims
Alive(t) == tpc[t] \notin {"unborn", "done"}

\* Thread t calls at least one observer in this step.
CallsObserver(t) == Len(calls'[t]) > Len(calls[t])

\* Thread t hands a batch to the new-message observers in this step.
Delivers(t) == tpc[t] = "fetch" /\ tpc'[t] = "convs" /\ CallsObserver(t)

\* The batch handed over in a step where Delivers(t) holds.
Batch(t) == calls'[t][Len(calls[t]) + 1].arg

EventsOf(t, k) == {i \in DOMAIN calls[t] : calls[t][i].kind = k}

\* C1: no message id is passed to the new-message observers in more than one
\* batch, whatever the interleaving of appends with a tick's reads.
C1_NoDuplicate == \A i \in MsgIds : count[i] <= 1

\* C2: every message appended after start() read its baseline id is eventually
\* delivered while the watcher runs and the store reads succeed.
C2_NoLoss ==
    \A m \in MsgIds : (m <= Len(store) /\ m > startHi /\ running) ~> (count[m] > 0)

\* C3: a delivered batch is ascending in id, and each of its ids is greater
\* than every id delivered in an earlier tick.
C3_Ascending ==
    [][\A t \in Threads : Delivers(t) =>
          /\ \A i, j \in DOMAIN Batch(t) : i < j => Batch(t)[i] < Batch(t)[j]
          /\ \A i \in Range(Batch(t)), j \in MsgIds : count[j] > 0 => i > j]_vars

\* C4: the last-seen id never decreases, across ticks and stop()/start() cycles.
C4_WatermarkMonotone == [][last_message_id' >= last_message_id]_vars

\* C5: no message whose id is at most the store's highest id at start() is
\* delivered as new after that start().
C5_NoReplay ==
    [][\A t \in Threads : Delivers(t) => \A i \in Range(Batch(t)) : i > startHi]_vars

\* C6: start() while running changes neither the baselines nor the threads.
C6_StartIdempotent ==
    [][(mainPc = "idle" /\ running /\ starts' = starts + 1) =>
          UNCHANGED <<last_message_id, last_mtime, running, thread, tpc, mainPc>>]_vars

\* start() has been called while running: more calls than threads created.
C6_Witness ==
    /\ running
    /\ mainPc = "idle"
    /\ starts > Cardinality({t \in Threads : tpc[t] # "unborn"})

\* C7: at most one poll thread is inside the loop at any time.
C7_OnePollThread == Cardinality({t \in Threads : Alive(t)}) <= 1

\* C8 as claimed: once stop() has returned, no observer is called.
C8_NoCallbackAfterStop ==
    [][(mainPc = "idle" /\ ~running) => \A t \in Threads : ~CallsObserver(t)]_vars

\* C8 amended: once stop() has returned and no stop() has returned on its join
\* timeout, no observer is called until a later start().
C8_NoCallbackAfterJoinedStop ==
    [][(mainPc = "idle" /\ ~running /\ ~timedOut) =>
          \A t \in Threads : ~CallsObserver(t)]_vars

\* stop() has returned after joining a thread that had delivered messages.
C8_Witness ==
    /\ mainPc = "idle"
    /\ ~running
    /\ ~timedOut
    /\ \E t \in Threads : tpc[t] = "done"
    /\ \E i \in MsgIds : count[i] > 0

\* C9: a poll thread ends only at the loop test with the flag cleared; a tick
\* that failed is followed by the sleep and the next tick.
C9_LoopSurvives ==
    [][\A t \in Threads :
          /\ (tpc[t] # "done" /\ tpc'[t] = "done") => (tpc[t] = "top" /\ ~running)
          /\ (tpc[t] \in {"fetch", "convs"} /\ tpc'[t] # tpc[t]) =>
                tpc'[t] \in {"convs", "sleep"}]_vars

\* A tick has failed with the error observers called, and the thread lives on.
C9_Witness ==
    \E t \in Threads :
       /\ tpc[t] = "sleep"
       /\ running
       /\ EventsOf(t, "err") # {}
       /\ EventsOf(t, "conv") = {}

\* C10, the tick's calls: each new-message observer is called exactly once, all
\* with the same batch, and before every conversation observer.
C10_TickCalls ==
    \A t \in Threads : EventsOf(t, "msg") # {} =>
       /\ \A o \in MsgObs :
             Cardinality({i \in EventsOf(t, "msg") : calls[t][i].obs = o}) = 1
       /\ \A i, j \in EventsOf(t, "msg") : calls[t][i].arg = calls[t][j].arg
       /\ \A i \in EventsOf(t, "msg"), j \in EventsOf(t, "conv") : i < j

\* C10, the batch: it holds exactly the ids above the watermark.
C10_WholeBatch ==
    \A t \in Threads : Delivers(t) =>
       /\ Range(Batch(t)) = (last_message_id + 1)..Len(store)
       /\ Len(Batch(t)) = Len(store) - last_message_id

\* C10: in a tick that finds new messages every new-message observer is called
\* once with the whole batch, before any conversation observer.
C10_BatchThenConversations == []C10_TickCalls /\ [][C10_WholeBatch]_vars

\* A tick has delivered a batch of two and then the conversation list.
C10_Witness ==
    \E t \in Threads :
       /\ tpc[t] = "sleep"
       /\ \E i \in EventsOf(t, "msg") : Len(calls[t][i].arg) = 2
       /\ EventsOf(t, "conv") # {}

\* ================================================================ the editor
\* ------------------------------------------------------------------ bounds
\* Characters the edit buffer ever holds, line breaks included.
MaxText == 4
\* Entries the input history ever holds.
MaxHist == 2

EditChars == {"a", " "}
\* The texts given to set_text: up to three lines, empty ones among them.
Texts == {<<>>, <<"a">>, <<NL>>, <<"a", NL>>, <<NL, "a">>, <<"a", NL, "a">>,
          <<NL, NL>>, <<"a", NL, NL, "a">>}
HistTexts == {<<"a">>, <<"a", NL, "a">>, <<" ">>}
EditKeys == {KEY_BACKSPACE, "127", "8", KEY_DC, KEY_LEFT, KEY_RIGHT, KEY_UP, KEY_DOWN,
             KEY_HOME, CTRL_A, KEY_END, CTRL_E, CTRL_U, CTRL_W, CTRL_K,
             "10", "13", KEY_ENTER, TAB, ESCAPE} \cup EditChars

\* The characters handle_key(key) inserts.
Inserted(key) ==
    IF key = TAB THEN 4 ELSE IF key \in Printable THEN 1 ELSE 0

TripAfter(b, key) ==
    IF Inserted(key) > 0
    THEN IF trip.on /\ ~trip.deleting
         THEN [trip EXCEPT !.n = @ + Inserted(key), !.owed = @ + Inserted(key)]
         ELSE [on |-> TRUE, lines |-> b.lines, cursor_row |-> b.cursor_row,
               cursor_col |-> b.cursor_col, n |-> Inserted(key),
               owed |-> Inserted(key), deleting |-> FALSE]
    ELSE IF key \in {KEY_BACKSPACE, "127", "8"} /\ trip.on /\ trip.owed > 0
    THEN [trip EXCEPT !.owed = @ - 1, !.deleting = TRUE]
    ELSE NoTrip

\* input_box.handle_key(key)
EditKey(keys) ==
    /\ \E key \in keys :
          /\ Len(join(input_box.lines)) + Inserted(key) <= MaxText
          /\ input_box' = handle_key(input_box, key).box
          /\ ret' = handle_key(input_box, key).ret
          /\ trip' = TripAfter(input_box, key)
    /\ UNCHANGED <<watcherVars, appVars>>

\* input_box.set_text(text)
SetText(texts) ==
    /\ \E text \in texts : input_box' = set_text(input_box, text)
    /\ ret' = <<>>
    /\ trip' = NoTrip
    /\ UNCHANGED <<watcherVars, appVars>>

\* input_box.clear()
Clear ==
    /\ input_box' = clear(input_box)
    /\ ret' = <<>>
    /\ trip' = NoTrip
    /\ UNCHANGED <<watcherVars, appVars>>

\* input_box.push_history(text)
PushHistory(texts) ==
    /\ Len(input_box.history) < MaxHist
    /\ \E text \in texts : input_box' = push_history(input_box, text)
    /\ ret' = <<>>
    /\ trip' = NoTrip
    /\ UNCHANGED <<watcherVars, appVars>>

\* input_box.recall_history(direction)
RecallHistory(directions) ==
    /\ \E direction \in directions :
          /\ input_box' = recall_history(input_box, direction).box
          /\ ret' = recall_history(input_box, direction).ret
    /\ trip' = NoTrip
    /\ UNCHANGED <<watcherVars, appVars>>

EditNext ==
    \/ EditKey(EditKeys)
    \/ SetText(Texts)
    \/ Clear
    \/ PushHistory(HistTexts)
    \/ RecallHistory({-1, 1})

\* The editor on its own, under any sequence of calls.
EditSpec == Init /\ [][EditNext]_vars

\* ========================================================= the application
\* ------------------------------------------------------------------ bounds
\* Payloads the watcher's callbacks ever put on the update queue.
MaxPuts == 2
\* The message-pane scroll offset is followed up to this value.
MaxScroll == 2
\* Characters the input box of the application holds at most.
MaxTyped == 2

\* What the store holds for the application's reads.
Conversation(c) == [chat_id |-> c, chat_identifier |-> <<"handle", c>>]
Message(i, c) == [message_id |-> i, chat_id |-> c, is_from_me |-> (c = 2), rows |-> i]
ConvLists == {<<>>, <<Conversation(1)>>, <<Conversation(1), Conversation(2)>>,
              <<Conversation(2), Conversation(1)>>}
Stores == {<<>>, <<Message(1, 1), Message(2, 2)>>, <<Message(1, 1), Message(2, 1)>>}
Batches == {<<Message(2, 1)>>, <<Message(1, 1), Message(2, 2)>>}
Errors == {"database is locked"}
Sizes == {<<9, 59>>, <<12, 60>>, <<24, 80>>}
Outcomes == {"True", "False", "raise"}

\* watcher.get_messages(chat_id) on a store holding stored.
get_messages(stored, chat_id) == SelectSeq(stored, LAMBDA m : m.chat_id = chat_id)

KEY_RESIZE == "KEY_RESIZE"
KEY_PPAGE == "KEY_PPAGE"
KEY_NPAGE == "KEY_NPAGE"

\* while self.running: the loop goes on to the drain, or ends.
LoopTop(s) == IF s.running THEN "drain" ELSE "exited"

\* The end of a key event: the application and the editor as the handler left
\* them, and the loop back at its test.
KeyDone(k, s, b) ==
    /\ getch' = k
    /\ tui' = s
    /\ input_box' = b
    /\ loopPc' = LoopTop(s)

\* An exception left run(): the application as it was when it was raised.
Crash(k, s) ==
    /\ getch' = k
    /\ tui' = s
    /\ loopPc' = "crashed"
    /\ UNCHANGED input_box

\* ------------------------------------------------------------------- run()
\* run(), up to the event loop: the initial load, watcher.start(), draw_all().
RunStart(convLists, stores, OK) ==
    /\ loopPc = "init"
    /\ \E ok \in OK, conversations \in convLists, stored \in stores :
          LET s == [tui EXCEPT !.conversations = conversations]
          IN /\ tui' = IF ~ok THEN tui
                       ELSE IF conversations = <<>> THEN draw_all(s)
                       ELSE draw_all(_select_conversation(
                               s, 0, get_messages(stored, conversations[1].chat_id)))
             /\ loopPc' = IF ok THEN "drain" ELSE "crashed"
    /\ UNCHANGED <<watcherVars, editVars, getch, update_queue, dispatch, enqueued, applied>>

\* ---------------------------------------------------- the watcher's callbacks
Put(payload) ==
    /\ loopPc # "init"
    /\ Len(enqueued) < MaxPuts
    /\ update_queue' = Append(update_queue, payload)
    /\ enqueued' = Append(enqueued, payload)
    /\ UNCHANGED <<watcherVars, editVars, tui, getch, loopPc, dispatch, applied>>

_on_new_messages(batches) ==
    \E messages \in batches : Put([type |-> "new_messages", data |-> messages])

_on_conversations_updated(convLists) ==
    \E conversations \in convLists : Put([type |-> "conversations", data |-> conversations])

_on_error(errors) ==
    \E error \in errors : Put([type |-> "error", data |-> error])

\* ----------------------------------------------------------------- the drain
\* for msg in data: if msg.chat_id == self.selected_chat_id: append and scroll
RECURSIVE AppendNew(_, _)
AppendNew(s, data) ==
    IF data = <<>> THEN s
    ELSE AppendNew(
            IF Head(data).chat_id = s.selected_chat_id
            THEN LET t == [s EXCEPT !.messages = Append(s.messages, Head(data))]
                 IN [t EXCEPT !.message_scroll =
                                 Max(0, Len(t.messages) - _visible_message_lines(t))]
            ELSE s,
            Tail(data))

\* _process_updates' handling of one payload.
Apply(s, update) ==
    IF update.type = "conversations"
    THEN _draw_conversations([s EXCEPT !.conversations = update.data])
    ELSE IF update.type = "new_messages"
    THEN LET t == _draw_conversations(_draw_messages(AppendNew(s, update.data)))
         IN IF update.data # <<>> /\ ~update.data[Len(update.data)].is_from_me
            THEN [t EXCEPT !.status_message = "New message"]
            ELSE t
    ELSE IF update.type = "error"
    THEN [s EXCEPT !.error_message = update.data]
    ELSE s

\* The drain that handles one payload a tick.
ProcessUpdate_once ==
    /\ loopPc = "drain"
    /\ IF update_queue = <<>>
       THEN UNCHANGED <<tui, update_queue, applied>>
       ELSE /\ tui' = Apply(tui, Head(update_queue))
            /\ update_queue' = Tail(update_queue)
            /\ applied' = Append(applied, Head(update_queue))
    /\ loopPc' = "getch"
    /\ getch' = NoKey
    /\ ret' = <<>>
    /\ dispatch' = <<>>
    /\ UNCHANGED <<watcherVars, input_box, trip, enqueued>>

\* _process_updates, one get_nowait() at a time: the next payload is taken
\* and handled, or queue.Empty ends the drain. key, result and the call made
\* are locals of the iteration before: a new iteration starts without them.
ProcessUpdate ==
    /\ loopPc = "drain"
    /\ IF update_queue = <<>>
       THEN /\ loopPc' = "getch"
            /\ UNCHANGED <<tui, update_queue, applied>>
       ELSE /\ tui' = Apply(tui, Head(update_queue))
            /\ update_queue' = Tail(update_queue)
            /\ applied' = Append(applied, Head(update_queue))
            /\ UNCHANGED loopPc
    /\ getch' = NoKey
    /\ ret' = <<>>
    /\ dispatch' = <<>>
    /\ UNCHANGED <<watcherVars, input_box, trip, enqueued>>

\* ------------------------------------------------------------ the key events
\* Quit and help toggle pre-empted by the input focus: typed there as text.
GlobalKeys_outside_input(s) == IF s.focus = "input" THEN {} ELSE {"?", "q", "Q"}

\* The keys run() handles before it looks at the focus.
GlobalKeys(s) == {"?", "q", "Q"}

\* Keys that reach the handler of the focus.
FocusKeys(keys, s) == keys \ (GlobalKeys(s) \cup {NoKey, KEY_RESIZE})

\* getch() timed out: key == -1.
Timeout ==
    /\ loopPc = "getch"
    /\ KeyDone(NoKey, tui, input_box)
    /\ UNCHANGED <<watcherVars, ret, trip, update_queue, dispatch, enqueued, applied>>

\* KEY_RESIZE: _handle_resize lays the windows out again, which makes a new
\* input box, and redraws.
Resize(sizes) ==
    /\ loopPc = "getch"
    /\ \E size \in sizes :
          KeyDone(KEY_RESIZE, draw_all(_setup_windows(tui, size[1], size[2])),
                  MultiLineInputBox)
    /\ UNCHANGED <<watcherVars, ret, trip, update_queue, dispatch, enqueued, applied>>

\* '?' toggles the help overlay, 'q' or 'Q' clears the running flag.
GlobalKey(keys) ==
    /\ loopPc = "getch"
    /\ \E k \in keys \cap GlobalKeys(tui) :
          KeyDone(k,
                  IF k = "?"
                  THEN IF tui.show_help THEN draw_all([tui EXCEPT !.show_help = FALSE])
                       ELSE [tui EXCEPT !.show_help = TRUE]
                  ELSE [tui EXCEPT !.running = FALSE],
                  input_box)
    /\ UNCHANGED <<watcherVars, ret, trip, update_queue, dispatch, enqueued, applied>>

\* The help overlay that Escape closes as well.
HelpSwallow_escape_closes(keys) ==
    /\ loopPc = "getch"
    /\ tui.show_help
    /\ \E k \in FocusKeys(keys, tui) :
          KeyDone(k, IF k = ESCAPE THEN draw_all([tui EXCEPT !.show_help = FALSE]) ELSE tui,
                  input_box)
    /\ UNCHANGED <<watcherVars, ret, trip, update_queue, dispatch, enqueued, applied>>

\* if self.show_help: continue
HelpSwallow(keys) ==
    /\ loopPc = "getch"
    /\ tui.show_help
    /\ \E k \in FocusKeys(keys, tui) : KeyDone(k, tui, input_box)
    /\ UNCHANGED <<watcherVars, ret, trip, update_queue, dispatch, enqueued, applied>>

\* Escape that goes back to the conversation list.
AfterEscape_to_list(s) == _draw_status([s EXCEPT !.focus = "conversations"])

\* if key == 27: self.focus = "messages"; self._draw_status()
AfterEscape(s) == _draw_status([s EXCEPT !.focus = "messages"])

\* The input box cleared, sent or not.
AfterSend_always(b, result, success) == clear(push_history(b, result))

\* if success: push_history(result); clear() -- else the text is kept.
AfterSend(b, result, success) ==
    IF success THEN clear(push_history(b, result)) ELSE b

\* focus == "input": Escape, or the key goes to the input box and a returned
\* text is sent.
InputKey(keys, outcomes) ==
    /\ loopPc = "getch"
    /\ ~tui.show_help
    /\ tui.focus = "input"
    /\ \E k \in FocusKeys(keys, tui) :
          IF k = ESCAPE
          THEN /\ KeyDone(k, AfterEscape(tui), input_box)
               /\ UNCHANGED <<ret, dispatch>>
          ELSE LET r == handle_key(input_box, k)
               IN /\ Len(join(input_box.lines)) + Inserted(k) <= MaxTyped
                  /\ ret' = r.ret
                  /\ IF r.ret = <<>>
                     THEN /\ KeyDone(k, tui, r.box)
                          /\ UNCHANGED dispatch
                     ELSE \E outcome \in outcomes :
                             LET sent == _send_current_message(tui, r.ret[1], outcome)
                                 b == AfterSend(r.box, r.ret[1], sent.success)
                             IN /\ Len(b.history) <= MaxHist
                                /\ IF sent.raised
                                   THEN Crash(k, sent.tui)
                                   ELSE KeyDone(k, _draw_status([sent.tui EXCEPT
                                                                    !.focus = "messages"]), b)
                                /\ dispatch' = sent.call
    /\ UNCHANGED <<watcherVars, trip, update_queue, enqueued, applied>>

\* self._select_conversation(idx) from a key handler; a failing get_messages
\* leaves run() as an exception.
Select(k, idx, stores, OK) ==
    IF 0 <= idx /\ idx < Len(tui.conversations)
    THEN \E ok \in OK, stored \in stores :
            IF ok
            THEN KeyDone(k, _select_conversation(
                               tui, idx,
                               get_messages(stored, tui.conversations[idx + 1].chat_id)),
                         input_box)
            ELSE Crash(k, [tui EXCEPT
                              !.selected_conv_idx = idx,
                              !.selected_chat_id = tui.conversations[idx + 1].chat_id])
    ELSE KeyDone(k, tui, input_box)

\* 'r' with the conversation list focused: both reads, draw_all(), "Refreshed".
RefreshAll(k, convLists, stores, OK) ==
    \E ok1 \in OK, ok2 \in OK, conversations \in convLists, stored \in stores :
       LET s == [tui EXCEPT !.conversations = conversations]
           selected == s.selected_chat_id \notin {None, 0}
           t == IF selected
                THEN [s EXCEPT !.messages = get_messages(stored, s.selected_chat_id)]
                ELSE s
       IN IF ~ok1 THEN Crash(k, tui)
          ELSE IF selected /\ ~ok2 THEN Crash(k, s)
          ELSE KeyDone(k, _draw_status([draw_all(t) EXCEPT !.status_message = "Refreshed"]),
                       input_box)

\* focus == "conversations"
ConversationsKey(keys, convLists, stores, OK) ==
    /\ loopPc = "getch"
    /\ ~tui.show_help
    /\ tui.focus = "conversations"
    /\ \E k \in FocusKeys(keys, tui) :
          IF k \in {KEY_UP, "k"}
          THEN IF tui.selected_conv_idx > 0
               THEN Select(k, tui.selected_conv_idx - 1, stores, OK)
               ELSE KeyDone(k, tui, input_box)
          ELSE IF k \in {KEY_DOWN, "j"}
          THEN IF tui.selected_conv_idx < Len(tui.conversations) - 1
               THEN Select(k, tui.selected_conv_idx + 1, stores, OK)
               ELSE KeyDone(k, tui, input_box)
          ELSE IF k \in ENTER_KEYS \cup {KEY_RIGHT, "l"}
          THEN KeyDone(k, _draw_conversations(_draw_status([tui EXCEPT !.focus = "messages"])),
                       input_box)
          ELSE IF k = "i"
          THEN KeyDone(k, _draw_status([tui EXCEPT !.focus = "input"]), input_box)
          ELSE IF k = TAB
          THEN KeyDone(k, _draw_status([tui EXCEPT !.focus = "messages"]), input_box)
          ELSE IF k \in {"r", "R"}
          THEN RefreshAll(k, convLists, stores, OK)
          ELSE KeyDone(k, tui, input_box)
    /\ UNCHANGED <<watcherVars, ret, trip, update_queue, dispatch, enqueued, applied>>

\* 'r' with the message pane focused: the messages of the selected
\* conversation are read again.
RefreshMessages(k, stores, OK) ==
    \E ok \in OK, stored \in stores :
       LET selected == tui.selected_chat_id \notin {None, 0}
           s == [tui EXCEPT !.messages = get_messages(stored, tui.selected_chat_id)]
           t == IF selected
                THEN [s EXCEPT !.message_scroll =
                                  Max(0, Len(s.messages) - _visible_message_lines(s))]
                ELSE tui
       IN IF selected /\ ~ok THEN Crash(k, tui)
          ELSE KeyDone(k, _draw_status([_draw_messages(t) EXCEPT
                                           !.status_message = "Refreshed"]),
                       input_box)

\* The scroll keys of the message pane, each followed by _draw_messages().
Scrolled(s, k) ==
    IF k \in {KEY_UP, "k"}
    THEN IF s.message_scroll > 0
         THEN _draw_messages([s EXCEPT !.message_scroll = @ - 1])
         ELSE s
    ELSE IF k \in {KEY_DOWN, "j"} THEN _draw_messages([s EXCEPT !.message_scroll = @ + 1])
    ELSE IF k = KEY_PPAGE THEN _draw_messages([s EXCEPT !.message_scroll = Max(0, @ - 10)])
    ELSE IF k = KEY_NPAGE THEN _draw_messages([s EXCEPT !.message_scroll = @ + 10])
    ELSE IF k = "g" THEN _draw_messages([s EXCEPT !.message_scroll = 0])
    ELSE _draw_messages([s EXCEPT !.message_scroll =
                                     Max(0, Len(s.messages) - _visible_message_lines(s))])

ScrollKeys == {KEY_UP, "k", KEY_DOWN, "j", KEY_PPAGE, KEY_NPAGE, "g", "G"}

\* focus == "messages"
MessagesKey(keys, stores, OK) ==
    /\ loopPc = "getch"
    /\ ~tui.show_help
    /\ tui.focus = "messages"
    /\ \E k \in FocusKeys(keys, tui) :
          IF k \in ScrollKeys
          THEN /\ Scrolled(tui, k).message_scroll <= MaxScroll
               /\ KeyDone(k, Scrolled(tui, k), input_box)
          ELSE IF k \in {KEY_LEFT, "h"}
          THEN IF tui.conv_win # "None"
               THEN KeyDone(k, _draw_conversations(_draw_status(
                                  [tui EXCEPT !.focus = "conversations"])), input_box)
               ELSE KeyDone(k, tui, input_box)
          ELSE IF k = "i"
          THEN KeyDone(k, _draw_status([tui EXCEPT !.focus = "input"]), input_box)
          ELSE IF k = TAB
          THEN KeyDone(k, _draw_status([tui EXCEPT !.focus = "conversations"]), input_box)
          ELSE IF k \in {"r", "R"}
          THEN RefreshMessages(k, stores, OK)
          ELSE KeyDone(k, tui, input_box)
    /\ UNCHANGED <<watcherVars, ret, trip, update_queue, dispatch, enqueued, applied>>

\* One iteration step of run()'s loop on the foreground thread.
MainStep(keys, sizes, outcomes, convLists, stores, OK) ==
    \/ ProcessUpdate
    \/ Timeout
    \/ Resize(sizes)
    \/ GlobalKey(keys)
    \/ HelpSwallow(keys)
    \/ InputKey(keys, outcomes)
    \/ ConversationsKey(keys, convLists, stores, OK)
    \/ MessagesKey(keys, stores, OK)

\* The watcher thread's deliveries, through the callbacks of _setup_watcher.
WatcherPut(batches, convLists, errors) ==
    \/ _on_new_messages(batches)
    \/ _on_conversations_updated(convLists)
    \/ _on_error(errors)

\* The application started on a terminal of some size.
TuiInit ==
    /\ store = <<>>
    /\ mtime = 1
    /\ running = FALSE
    /\ thread = 0
    /\ last_message_id = 0
    /\ last_mtime = 0
    /\ mainPc = "idle"
    /\ tpc = [t \in Threads |-> "unborn"]
    /\ current_max_id = [t \in Threads |-> 0]
    /\ calls = [t \in Threads |-> <<>>]
    /\ starts = 0
    /\ startHi = 0
    /\ count = [i \in MsgIds |-> 0]
    /\ timedOut = FALSE
    /\ input_box = MultiLineInputBox
    /\ ret = <<>>
    /\ trip = NoTrip
    /\ \E size \in Sizes : tui = MessagesTUI(size[1], size[2])
    /\ getch = NoKey
    /\ loopPc = "init"
    /\ update_queue = <<>>
    /\ dispatch = <<>>
    /\ enqueued = <<>>
    /\ applied = <<>>

\* ------------------------------------------------ the update queue at work
\* The loop drains what the watcher's three callbacks put, at any moment,
\* while keys toggle the help, move the focus and quit.
QueueKeys == {"?", "q", "i", ESCAPE}

QueueNext ==
    \/ RunStart({<<Conversation(1)>>}, {<<Message(1, 1)>>}, {TRUE})
    \/ WatcherPut(Batches, {<<Conversation(1), Conversation(2)>>}, Errors)
    \/ MainStep(QueueKeys, {<<24, 80>>}, {"True"}, ConvLists, Stores, {TRUE})

QueueSpec == Init /\ [][QueueNext]_vars

\* ------------------------------------------------------ typing and sending
\* Texts are typed and submitted, with every outcome of send_message, while
\* the watcher reports conversation lists that reorder or drop the selected
\* conversation.
SendKeys == {"?", "i", ESCAPE, "10", "a"}

SendNext ==
    \/ RunStart({<<>>, <<Conversation(1), Conversation(2)>>}, {<<>>}, {TRUE})
    \/ _on_conversations_updated({<<Conversation(2), Conversation(1)>>, <<Conversation(2)>>})
    \/ MainStep(SendKeys, {<<24, 80>>}, Outcomes, ConvLists, {<<>>}, {TRUE})

SendSpec == Init /\ [][SendNext]_vars

\* ------------------------------------------------------- focus and layout
\* The focus keys and the global keys on terminals of every layout, resized
\* at any moment.
FocusKeysPressed == {"?", "q", "Q", "i", "h", KEY_LEFT, KEY_RIGHT, TAB, ESCAPE, "a"}

FocusNext ==
    \/ RunStart({<<>>, <<Conversation(1)>>}, {<<>>}, {TRUE})
    \/ _on_error(Errors)
    \/ MainStep(FocusKeysPressed, Sizes, {"True"}, {<<Conversation(1)>>}, {<<>>}, {TRUE})

FocusSpec == TuiInit /\ [][FocusNext]_vars


\* ------------------------------------------------------------------ claims
SubmitKeys == ENTER_KEYS \cup {KEY_ENTER}

\* C12: after any sequence of editor calls the buffer has at least one line
\* and the cursor is on a line of it, between column 0 and the line's end.
C12_CursorInBuffer ==
    /\ Len(input_box.lines) >= 1
    /\ 0 <= input_box.cursor_row
    /\ input_box.cursor_row < Len(input_box.lines)
    /\ 0 <= input_box.cursor_col
    /\ input_box.cursor_col <= Len(Line(input_box))

\* The cursor sits at the end of a line that is longer than the line below
\* it, with a history entry recalled.
C12_Witness ==
    /\ Len(input_box.lines) >= 2
    /\ input_box.cursor_row = 0
    /\ input_box.cursor_col = Len(input_box.lines[1])
    /\ Len(input_box.lines[1]) > Len(input_box.lines[2])
    /\ input_box.history_idx # None

\* C13: n characters inserted at the cursor and then n deletions backward
\* leave the lines and the cursor as they were before the insertion.
C13_RoundTrip ==
    (trip.on /\ trip.owed = 0) =>
        /\ input_box.lines = trip.lines
        /\ input_box.cursor_row = trip.cursor_row
        /\ input_box.cursor_col = trip.cursor_col

\* Two or more characters were inserted inside a line of a buffer of several
\* lines and have all been deleted again.
C13_Witness ==
    /\ trip.on
    /\ trip.owed = 0
    /\ trip.n >= 2
    /\ Len(trip.lines) >= 2
    /\ trip.cursor_col > 0

\* C14 as claimed: Enter returns the lines joined by newlines and leaves the
\* editor as it was.
C14_SubmitReturnsJoin ==
    [][(\E key \in SubmitKeys : EditKey({key})) =>
          /\ ret' = <<join(input_box.lines)>>
          /\ input_box' = input_box]_vars

\* s is t without its trailing line breaks.
IsRstripOf(s, t) ==
    /\ s = <<>> \/ s[Len(s)] # NL
    /\ \E k \in 0..Len(t) : t = s \o [i \in 1..k |-> NL]

\* C14 amended: Enter returns the lines joined by newlines without the
\* trailing line breaks, and leaves lines, cursor, history and history cursor
\* as they were.
C14_SubmitKeepsBuffer ==
    [][(\E key \in SubmitKeys : EditKey({key})) =>
          /\ Len(ret') = 1
          /\ IsRstripOf(ret'[1], join(input_box.lines))
          /\ input_box' = input_box]_vars

\* Enter has returned the text of a buffer of two lines, which is still there.
C14_Witness ==
    /\ ret # <<>>
    /\ ret[1] # <<>>
    /\ Len(input_box.lines) = 2
    /\ ret[1] = join(input_box.lines)

\* C15: with the oldest entry loaded, recalling older returns the oldest entry
\* again and keeps the history cursor at 0.
C15_OlderClamps ==
    [][/\ (RecallHistory({-1}) /\ input_box.history_idx = 0) =>
              /\ input_box'.history_idx = 0
              /\ ret' = <<input_box.history[1]>>
       /\ (EditKey({KEY_UP}) /\ input_box.cursor_row = 0 /\ input_box.history_idx = 0) =>
              /\ input_box'.history_idx = 0
              /\ join(input_box'.lines) = input_box.history[1]]_vars

\* The oldest of two entries has been recalled.
C15_Witness ==
    /\ Len(input_box.history) = 2
    /\ input_box.history_idx = 0
    /\ ret = <<input_box.history[1]>>

\* C16: with the newest entry loaded, recalling newer empties the buffer and
\* ends the recall.
C16_NewerLeavesHistory ==
    (input_box.history # <<>> /\ input_box.history_idx = Len(input_box.history) - 1) =>
        /\ recall_history(input_box, 1).box.history_idx = None
        /\ input_box.cursor_row = Len(input_box.lines) - 1 =>
              handle_key(input_box, KEY_DOWN).box.lines = << <<>> >>

\* A call of _process_updates returns: queue.Empty ended its loop.
DrainReturns == loopPc = "drain" /\ loopPc' = "getch"

\* C11: every payload the callbacks put on the update queue is applied exactly
\* once and in the order it was put, none is skipped: what was applied,
\* followed by what is queued, is what was put. A call of the drain returns
\* only with the queue empty, everything put before it applied.
C11_QueueAppliedInOrder ==
    /\ [](applied \o update_queue = enqueued)
    /\ [][DrainReturns => (update_queue' = <<>> /\ applied' = enqueued')]_vars

\* Two payloads of different kinds have been applied, an error among them
\* not yet shown, and the drain has returned.
C11_Witness ==
    /\ loopPc = "getch"
    /\ Len(applied) >= 2
    /\ applied[1].type # applied[2].type
    /\ tui.error_message # ""
    /\ update_queue = <<>>

\* The key just read made the input box return a text: it was submitted.
Submitted == loopPc = "getch" /\ ret' # <<>>

\* The terminal was resized: _handle_resize ran.
Resized == loopPc = "getch" /\ getch' = KEY_RESIZE

\* A key goes to the handler of the input focus.
KeyToInput == loopPc = "getch" /\ tui.focus = "input"

\* C17: a submitted non-blank text whose dispatch does not succeed (it returns
\* false, it raises, or no conversation is there to send to) stays in the
\* editor, lines, cursor and history as they were; the error is shown in the
\* status line and the focus goes to the message pane. Until the edit mode is
\* entered again nothing but a resize touches the editor, and entering it
\* leaves the editor as it is.
C17_FailedSendKeepsDraft ==
    /\ [][(Submitted /\ strip(ret'[1])
              /\ (dispatch' = <<>> \/ dispatch'[1].outcome # "True")) =>
             /\ input_box' = input_box
             /\ tui'.status_win.attr = "error"
             /\ tui'.focus = "messages"]_vars
    /\ [][(~KeyToInput /\ ~Resized) => input_box' = input_box]_vars
    /\ [][(loopPc = "getch" /\ getch' = "i" /\ ~tui.show_help /\ tui.focus = "messages") =>
             tui'.focus = "input"]_vars

\* send_message raised for a typed text: the text is still in the editor, the
\* error is on the status line, nothing is in the history.
C17_Witness ==
    /\ ret # <<>>
    /\ strip(ret[1])
    /\ dispatch # <<>>
    /\ dispatch[1].outcome = "raise"
    /\ input_box.lines = <<ret[1]>>
    /\ input_box.cursor_col = Len(ret[1])
    /\ input_box.history = <<>>
    /\ tui.status_win = [attr |-> "error", text |-> "Send error"]
    /\ tui.focus = "messages"

\* C18: when a submitted text is sent with success, send_message was called
\* with the chat identifier of the conversation whose chat_id is
\* selected_chat_id and with the text; afterwards the text is the last entry
\* of the history, the buffer is empty with the cursor at (0, 0), and the
\* focus is the message pane.
C18_SentToSelected ==
    [][(Submitted /\ dispatch' # <<>> /\ dispatch'[1].outcome = "True") =>
         /\ \E i \in DOMAIN tui.conversations :
               /\ tui.conversations[i].chat_id = tui.selected_chat_id
               /\ dispatch'[1].recipient = tui.conversations[i].chat_identifier
         /\ dispatch'[1].message = ret'[1]
         /\ input_box'.history # <<>>
         /\ input_box'.history[Len(input_box'.history)] = ret'[1]
         /\ input_box'.lines = << <<>> >>
         /\ input_box'.cursor_row = 0
         /\ input_box'.cursor_col = 0
         /\ tui'.focus = "messages"]_vars

\* A text was sent after the watcher had reordered the list: the selected
\* conversation is no longer on the selected row, and the text went to it.
C18_Witness ==
    /\ dispatch # <<>>
    /\ dispatch[1].outcome = "True"
    /\ tui.conversations = <<Conversation(2), Conversation(1)>>
    /\ tui.selected_conv_idx = 0
    /\ tui.selected_chat_id = 1
    /\ dispatch[1].recipient = Conversation(1).chat_identifier
    /\ dispatch[1].message = <<"a", "a">>
    /\ input_box.history = << <<"a">>, <<"a", "a">> >>
    /\ input_box.lines = << <<>> >>
    /\ tui.focus = "messages"
    /\ tui.status_win = [attr |-> "status", text |-> "Message sent!"]

\* if self.width < 60: the list panel is hidden.
HideWidth == 60

\* A left-navigation key was read with the message pane focused.
LeftFromMessages ==
    /\ loopPc = "getch"
    /\ getch' \in {KEY_LEFT, "h"}
    /\ tui.focus = "messages"

\* C19: on a terminal narrower than the width that hides the list, the layout
\* has no conversation-list panel and the message pane has the whole width;
\* a left-navigation key pressed there with the message pane focused leaves
\* the focus and all the rest of the application and of the editor unchanged.
C19_NarrowHasNoList ==
    /\ [](tui.width < HideWidth =>
            /\ tui.conv_win = "None"
            /\ tui.conv_width = 0
            /\ tui.msg_width = tui.width)
    /\ [][(LeftFromMessages /\ tui.width < HideWidth) =>
             /\ tui' = tui
             /\ input_box' = input_box
             /\ loopPc' = "drain"]_vars

\* The left arrow was pressed in the message pane of a 59-column terminal, the
\* help overlay closed: no list panel, and the focus still on the messages.
C19_Witness ==
    /\ getch = KEY_LEFT
    /\ loopPc = "drain"
    /\ ~tui.show_help
    /\ tui.width = 59
    /\ tui.conv_win = "None"
    /\ tui.msg_width = 59
    /\ tui.focus = "messages"

\* The key just read.
KeyRead(keys) == loopPc = "getch" /\ getch' \in keys

\* C20: in every focus, the input focus included, '?' flips show_help and
\* 'q' or 'Q' clears the running flag, and the handler of the focus does not
\* see the key: the focus, the lists, the selection and the editor stay as
\* they are, nothing is returned by the editor and nothing is sent.
C20_GlobalKeysPreempt ==
    /\ [][KeyRead({"?"}) =>
             /\ tui'.show_help = ~tui.show_help
             /\ tui'.running = tui.running
             /\ tui'.focus = tui.focus
             /\ tui'.conversations = tui.conversations
             /\ tui'.messages = tui.messages
             /\ tui'.selected_chat_id = tui.selected_chat_id
             /\ tui'.selected_conv_idx = tui.selected_conv_idx
             /\ UNCHANGED <<input_box, ret, dispatch>>]_vars
    /\ [][KeyRead({"q", "Q"}) =>
             /\ tui' = [tui EXCEPT !.running = FALSE]
             /\ loopPc' = "exited"
             /\ UNCHANGED <<input_box, ret, dispatch>>]_vars

\* In the input focus, a text typed, '?' opened the help and 'q' ended the
\* loop: the text is as typed.
C20_Witness ==
    /\ tui.focus = "input"
    /\ tui.show_help
    /\ ~tui.running
    /\ getch = "q"
    /\ loopPc = "exited"
    /\ input_box.lines = << <<"a">> >>

\* A key was read with the help overlay showing: a keystroke, not a timeout
\* of getch() and not the resize event of the terminal.
KeyUnderHelp ==
    /\ loopPc = "getch"
    /\ tui.show_help
    /\ getch' \notin {NoKey, KEY_RESIZE}

\* C21 as stated: under the help overlay every key but '?' leaves the focus,
\* the selection, the scroll offsets, the editor and the running flag alone.
C21_HelpSwallowsAllButToggle ==
    [][(KeyUnderHelp /\ getch' # "?") =>
         /\ tui'.focus = tui.focus
         /\ tui'.selected_chat_id = tui.selected_chat_id
         /\ tui'.selected_conv_idx = tui.selected_conv_idx
         /\ tui'.message_scroll = tui.message_scroll
         /\ tui'.conv_scroll = tui.conv_scroll
         /\ input_box' = input_box
         /\ tui'.running = tui.running]_vars

\* C21: under the help overlay every key but the two global ones, '?' and
\* 'q' / 'Q', leaves the whole application and the editor unchanged; 'q' and
\* 'Q' clear the running flag and nothing else.
C21_HelpSwallowsFocusKeys ==
    /\ [][(KeyUnderHelp /\ getch' \notin {"?", "q", "Q"}) =>
             /\ tui' = tui
             /\ input_box' = input_box
             /\ UNCHANGED <<ret, dispatch>>]_vars
    /\ [][(KeyUnderHelp /\ getch' \in {"q", "Q"}) =>
             /\ tui' = [tui EXCEPT !.running = FALSE]
             /\ input_box' = input_box]_vars

\* 'a' was pressed in the input focus under the help overlay: the buffer is
\* still empty and the overlay still shows.
C21_Witness ==
    /\ tui.show_help
    /\ tui.running
    /\ tui.focus = "input"
    /\ getch = "a"
    /\ loopPc = "drain"
    /\ input_box.lines = << <<>> >>

\* C22: an exception of send_message during a submit does not end the event
\* loop: the running flag is still true, the status line shows the error, and
\* the loop is at its test again, on its way to the next drain; no exception
\* ever leaves run() through a submit.
C22_SendExceptionCaught ==
    /\ [][(Submitted /\ dispatch' # <<>> /\ dispatch'[1].outcome = "raise") =>
             /\ tui'.running
             /\ tui'.status_win = [attr |-> "error", text |-> "Send error"]
             /\ loopPc' = "drain"]_vars
    /\ [](loopPc # "crashed")

\* send_message raised, and the loop went on: the drain of the next iteration
\* has run and a key is awaited, the error still on the status line.
C22_Witness ==
    /\ loopPc = "getch"
    /\ tui.running
    /\ tui.status_win = [attr |-> "error", text |-> "Send error"]
    /\ tui.focus = "messages"
    /\ input_box.lines = << <<"a">> >>

\* ------------------------------------------------- the watcher's ticks again
\* The mtime read of thread t's tick raised: the store's mtime is newer than
\* the last one seen, and the tick goes to its sleep.
MtimeReadFailed(t) ==
    tpc[t] = "top" /\ running /\ tpc'[t] = "sleep" /\ mtime > last_mtime

\* The highest-ROWID read of thread t's tick raised: the store holds rows
\* above the watermark, and the tick goes on without fetching them.
MaxIdReadFailed(t) ==
    tpc[t] = "max" /\ tpc'[t] = "convs" /\ Len(store) > last_message_id

\* get_new_messages raised in thread t's tick: the watermark is not advanced.
FetchFailed(t) == tpc[t] = "fetch" /\ tpc'[t] # "fetch" /\ tpc'[t] # "convs"

\* get_conversations raised in thread t's tick: no conversation observer is
\* called.
ConvsFailed(t) ==
    /\ tpc[t] = "convs"
    /\ tpc'[t] # "convs"
    /\ \A i \in DOMAIN calls'[t] : i > Len(calls[t]) => calls'[t][i].kind # "conv"

\* Every error observer is called, once each, in this step of thread t.
ErrorObserversCalled(t) == calls'[t] = calls[t] \o ErrCalls

\* C23: every store read that fails inside a tick, the mtime read and the
\* highest-ROWID read included, has every error observer called.
C23_ReadFailureReported ==
    [][\A t \in Threads :
          (MtimeReadFailed(t) \/ MaxIdReadFailed(t) \/ FetchFailed(t) \/ ConvsFailed(t)) =>
             ErrorObserversCalled(t)]_vars

\* The watcher kept running and scheduled, the mtime and the highest ROWID
\* always readable, while get_new_messages and get_conversations may raise.
RetryNext ==
    \/ StoreAppend({d \in 1..MaxDate : d \notin Range(store)})
    \/ Start({TRUE})
    \/ StartThread({TRUE})
    \/ \E t \in Threads :
          \/ Poll(t, {TRUE})
          \/ ReadMax(t, {TRUE})
          \/ Deliver(t, BOOLEAN)
          \/ Convs(t, BOOLEAN)
          \/ Sleep(t)

RetrySpec ==
    /\ Init
    /\ [][RetryNext]_vars
    /\ WF_vars(StartThread({TRUE}))
    /\ \A t \in Threads : WF_vars(ThreadStep(t, {TRUE}))

\* Thread t's tick saw a change and one of its two reads raised: the error
\* observers were called and no conversation observer was.
TickFailed(t) ==
    /\ tpc[t] = "sleep"
    /\ EventsOf(t, "err") # {}
    /\ EventsOf(t, "conv") = {}

\* C24: after a tick whose read of the new messages or of the conversations
\* failed, the reads are made again by a later tick, whether or not the
\* store's mtime changes again.
C24_FailedReadsRetried ==
    \A t \in Threads : TickFailed(t) ~> (tpc[t] \in {"fetch", "convs"})

\* A tick of thread t that saw a changed mtime ends in this step.
ChangeTickEnds(t) == tpc[t] \in {"fetch", "convs"} /\ tpc'[t] \in {"sleep", "done"}

\* C25: a tick that saw a changed mtime ends with every conversation observer
\* called exactly once, with the list as get_conversations returns it, new
\* messages or not and whatever the read and the delivery of the new messages
\* did (the case left out is get_conversations itself raising).
C25_ConversationsEveryChange ==
    [][\A t \in Threads : (ChangeTickEnds(t) /\ ~ConvsFailed(t)) =>
          \A o \in ConvObs :
             Cardinality({i \in DOMAIN calls'[t] :
                             /\ calls'[t][i].kind = "conv"
                             /\ calls'[t][i].obs = o
                             /\ calls'[t][i].arg = get_conversations}) = 1]_vars

\* The store's file gets an older modification time (it is replaced by an
\* older copy, or its timestamp is set back); the rows stay.
SetBack ==
    /\ \E older \in 1..(mtime - 1) : mtime' = older
    /\ UNCHANGED <<store, running, thread, last_message_id, last_mtime, mainPc, tpc,
                   localVars, starts, startHi, count, timedOut>>
    /\ UNCHANGED tuiVars

\* The watcher started once and running, over a store whose mtime moves both
\* ways and whose reads may fail.
FreshNext ==
    \/ StoreAppend(1..MaxDate)
    \/ SetBack
    \/ Start({TRUE})
    \/ StartThread({TRUE})
    \/ \E t \in Threads : ThreadStep(t, BOOLEAN)

FreshSpec == Init /\ [][FreshNext]_vars

\* Thread t starts a tick while the store's mtime is no newer than the last one
\* seen.
StaleTick(t) == tpc[t] = "top" /\ running /\ mtime <= last_mtime /\ tpc'[t] # "top"

\* C26: a tick that finds the store's mtime equal to or lower than the last one
\* seen goes straight to its sleep: no observer is called, no read of messages
\* or conversations is made, and the watermark and the last mtime seen stay.
C26_StaleTickDoesNothing ==
    [][\A t \in Threads : StaleTick(t) =>
          /\ tpc'[t] = "sleep"
          /\ UNCHANGED <<calls, count, current_max_id, last_message_id, last_mtime>>]_vars

\* A tick found the mtime set back below the last one seen and sleeps, with a
\* row above the watermark unread and no observer called.
C26_Witness ==
    \E t \in Threads :
       /\ tpc[t] = "sleep"
       /\ running
       /\ calls[t] = <<>>
       /\ mtime < last_mtime
       /\ Len(store) > last_message_id
       /\ last_message_id > 0

\* ------------------------------------------------------- the editor again
\* The keys that insert into or delete from the buffer.
EditingKeys == EditChars \cup {KEY_BACKSPACE, KEY_DC, CTRL_W, CTRL_K}

\* C27: with a history entry recalled, an insertion or a deletion ends the
\* recall, so that the next recall of an older entry loads the newest one.
C27_EditEndsRecall ==
    input_box.history_idx # None =>
        \A key \in EditingKeys :
           LET b == handle_key(input_box, key).box
           IN /\ b.history_idx = None
              /\ recall_history(b, -1).ret = <<b.history[Len(b.history)]>>

\* C28: the history holds no blank entry and no two adjacent equal entries,
\* the history cursor is None or an index into the history, and no call
\* removes or reorders an entry: the history only grows at its end.
C28_HistoryWellFormed ==
    /\ [](/\ \A i \in DOMAIN input_box.history : strip(input_box.history[i])
          /\ \A i \in DOMAIN input_box.history :
                i > 1 => input_box.history[i] # input_box.history[i - 1]
          /\ \/ input_box.history_idx = None
             \/ input_box.history_idx \in 0..(Len(input_box.history) - 1))
    /\ [][/\ Len(input_box'.history) >= Len(input_box.history)
          /\ SubSeq(input_box'.history, 1, Len(input_box.history)) = input_box.history]_vars

\* Two entries pushed, the older one recalled into the buffer.
C28_Witness ==
    /\ Len(input_box.history) = 2
    /\ input_box.history_idx = 0
    /\ input_box.lines = split(input_box.history[1])
    /\ Len(input_box.lines) = 2

\* ---------------------------------------------------- moving the focus
\* The keys that move the focus, pressed in every focus.
NavKeys == {"?", "i", ESCAPE, KEY_RIGHT, "l", "10", "13"}

NavNext ==
    \/ RunStart({<<>>, <<Conversation(1)>>}, {<<>>}, {TRUE})
    \/ _on_error(Errors)
    \/ MainStep(NavKeys, {<<24, 80>>}, {"True"}, {<<Conversation(1)>>}, {<<>>}, {TRUE})

NavSpec == Init /\ [][NavNext]_vars

\* A key was read, the help overlay closed, with this focus.
KeyIn(keys, focus) == KeyRead(keys) /\ ~tui.show_help /\ tui.focus = focus

\* C29: the focus is always one of "conversations", "messages" and "input";
\* with the help overlay closed, Escape in the input focus goes to the
\* messages, 'i' in the conversations or in the messages goes to the input,
\* and Enter, the right arrow or 'l' in the conversations goes to the messages.
C29_FocusTransitions ==
    /\ [](tui.focus \in {"conversations", "messages", "input"})
    /\ [][KeyIn({ESCAPE}, "input") => tui'.focus = "messages"]_vars
    /\ [][(KeyIn({"i"}, "conversations") \/ KeyIn({"i"}, "messages")) =>
             tui'.focus = "input"]_vars
    /\ [][KeyIn(ENTER_KEYS \cup {KEY_RIGHT, "l"}, "conversations") =>
             tui'.focus = "messages"]_vars

\* Escape has just left the input focus for the messages: the text typed
\* there, an 'i', is still in the buffer.
C29_Witness ==
    /\ getch = ESCAPE
    /\ loopPc = "drain"
    /\ ~tui.show_help
    /\ tui.focus = "messages"
    /\ input_box.lines = << <<"i">> >>
    /\ tui.status_win = [attr |-> "hint", text |-> "messages"]

\* ------------------------------------------------- selecting a conversation
\* The list is walked up and down over a store whose messages of conversation
\* 1 render to three and to four display lines.
SelectKeys == {"?", "i", ESCAPE, KEY_UP, KEY_DOWN, KEY_RIGHT, KEY_LEFT}
SelectStores == {<<>>, <<Message(3, 1), Message(1, 2), Message(4, 1)>>}

SelectNext ==
    \/ RunStart({<<Conversation(1), Conversation(2)>>}, SelectStores, {TRUE})
    \/ _on_error(Errors)
    \/ MainStep(SelectKeys, {<<12, 60>>}, {"True"}, ConvLists, SelectStores, {TRUE})

SelectSpec == TuiInit /\ [][SelectNext]_vars

\* _select_conversation runs with a valid index in this step: at the start of
\* run(), or for an up or down key in the conversation list.
Selects ==
    \/ loopPc = "init" /\ loopPc' = "drain" /\ tui'.conversations # <<>>
    \/ /\ KeyIn({KEY_DOWN, "j"}, "conversations")
       /\ tui.selected_conv_idx < Len(tui.conversations) - 1
    \/ /\ KeyIn({KEY_UP, "k"}, "conversations")
       /\ tui.selected_conv_idx > 0

\* The rows of the message pane that show message lines.
visible_height(s) == s.msg_height - 2

\* The last display line of the newest message is among the lines drawn:
\* all_lines[message_scroll : message_scroll + visible_height].
LastLineShown(s) ==
    total_lines(s.messages) > 0 =>
       /\ s.message_scroll < total_lines(s.messages)
       /\ s.message_scroll + visible_height(s) >= total_lines(s.messages)

\* C30: after _select_conversation with a valid index, selected_chat_id is the
\* chat_id of the conversation at that index, the messages are those fetched
\* for it, and the scroll offset puts the last display line of the newest
\* message on the pane, wrapped messages included.
C30_SelectShowsNewest ==
    [][Selects =>
         /\ tui'.selected_chat_id =
               tui'.conversations[tui'.selected_conv_idx + 1].chat_id
         /\ tui'.messages \in
               {get_messages(stored, tui'.selected_chat_id) : stored \in SelectStores}
         /\ LastLineShown(tui')]_vars

\* ------------------------------------------------------------ auto-scroll
\* A message that renders to one display line.
ShortMessage(i, c) == [message_id |-> i, chat_id |-> c, is_from_me |-> FALSE, rows |-> 1]

\* Conversation 1 holds four one-line messages on a pane of three rows; the
\* operator scrolls, and the watcher delivers a fifth message, or one of
\* another conversation.
ScrollKeys_pressed == {"?", "i", ESCAPE, TAB, "k", "g", "G"}
ScrollStores ==
    {<<ShortMessage(1, 1), ShortMessage(2, 1), ShortMessage(3, 1), ShortMessage(4, 1)>>}
ScrollBatches == {<<ShortMessage(5, 1)>>, <<ShortMessage(5, 2)>>}

ScrollNext ==
    \/ RunStart({<<Conversation(1)>>}, ScrollStores, {TRUE})
    \/ _on_new_messages(ScrollBatches)
    \/ MainStep(ScrollKeys_pressed, {<<9, 59>>}, {"True"}, ConvLists, ScrollStores, {TRUE})

ScrollSpec == TuiInit /\ [][ScrollNext]_vars

\* The drain handles a batch that holds a message of the selected conversation.
ArrivalForSelected ==
    /\ loopPc = "drain"
    /\ update_queue # <<>>
    /\ Head(update_queue).type = "new_messages"
    /\ \E i \in DOMAIN Head(update_queue).data :
          Head(update_queue).data[i].chat_id = tui.selected_chat_id
    /\ applied' = Append(applied, Head(update_queue))

\* The offset is above the last one _draw_messages allows: the operator has
\* scrolled up from the bottom.
ScrolledUp(s) == s.message_scroll < Max(0, total_lines(s.messages) - visible_height(s))

\* C31: when a message of the selected conversation arrives right after the
\* operator has scrolled up from the bottom of the message pane, the scroll
\* offset stays where the operator left it.
C31_ScrolledUpKeepsOffset ==
    [][(/\ ArrivalForSelected
        /\ getch \in {KEY_UP, "k", "g", KEY_PPAGE}
        /\ tui.focus = "messages"
        /\ ScrolledUp(tui)) =>
          tui'.message_scroll = tui.message_scroll]_vars

\* ------------------------------------------------------ the minimum size
MIN_HEIGHT == 10
MIN_WIDTH == 50

\* if self.height < self.MIN_HEIGHT or self.width < self.MIN_WIDTH
TooSmall(s) == s.height < MIN_HEIGHT \/ s.width < MIN_WIDTH

\* C32: while the terminal is below the minimum size, from the start of the
\* event loop on and after every resize, no panel is rendered: the status
\* window of the layout shows nothing.
C32_SmallTerminalNotRendered ==
    (loopPc # "init" /\ TooSmall(tui)) => tui.status_win = Blank

\* ------------------------------------------------- status and error texts
\* 'r' or 'R' in the list or in the message pane: the refresh draws the status
\* line twice in one step, what was pending first and "Refreshed" after it.
Refreshes ==
    KeyRead({"r", "R"}) /\ ~tui.show_help /\ tui.focus \in {"conversations", "messages"}

\* C33: a status text or an error text that is pending is not cleared and not
\* replaced by another text unless the step shows it on the status line.
C33_TextShownBeforeCleared ==
    [][~Refreshes =>
          /\ (tui.status_message # "" /\ tui'.status_message # tui.status_message) =>
                tui'.status_win = [attr |-> "status", text |-> tui.status_message]
          /\ (tui.error_message # "" /\ tui'.error_message # tui.error_message) =>
                tui'.status_win = [attr |-> "error", text |-> tui.error_message]]_vars

\* ------------------------------------------- reads on the foreground thread
\* The operator walks the list and refreshes while the store, which held one
\* message of conversation 1 when run() loaded it, gets a second one that the
\* watcher delivers; every read of the foreground thread may fail.
ReadKeys == {"?", "i", ESCAPE, TAB, KEY_UP, KEY_DOWN, "r"}
ReadStores == {<<Message(1, 1)>>, <<Message(1, 1), Message(2, 1)>>}

ReadNext ==
    \/ RunStart({<<Conversation(1), Conversation(2)>>}, {<<Message(1, 1)>>}, BOOLEAN)
    \/ _on_new_messages({<<Message(2, 1)>>})
    \/ MainStep(ReadKeys, {<<24, 80>>}, {"True"},
                {<<Conversation(1), Conversation(2)>>}, ReadStores, BOOLEAN)

ReadSpec == Init /\ [][ReadNext]_vars

\* A key whose handler reads the store: a move in the conversation list that
\* selects another conversation, or a refresh.
ForegroundRead ==
    \/ /\ KeyIn({KEY_DOWN, "j"}, "conversations")
       /\ tui.selected_conv_idx < Len(tui.conversations) - 1
    \/ /\ KeyIn({KEY_UP, "k"}, "conversations")
       /\ tui.selected_conv_idx > 0
    \/ Refreshes

\* C34: a key whose handler reads the store leaves the event loop running,
\* whether the read succeeds or fails: the loop is back at its test.
C34_ReadFailureKeepsLoop ==
    [][ForegroundRead => loopPc' = LoopTop(tui')]_vars

\* The messages of the batches the watcher has put, in the order it put them.
RECURSIVE Delivered(_)
Delivered(puts) ==
    IF puts = <<>> THEN <<>>
    ELSE (IF Head(puts).type = "new_messages" THEN Head(puts).data ELSE <<>>)
         \o Delivered(Tail(puts))

\* No message id occurs twice in a list of messages.
DistinctIds(messages) ==
    \A i, j \in DOMAIN messages :
       i # j => messages[i].message_id # messages[j].message_id

\* C35: with every message delivered by the watcher at most once, the message
\* list of the selected conversation never holds two entries with the same
\* message id, whatever the order of the deliveries, the selections and the
\* refreshes.
C35_NoDuplicateMessage ==
    DistinctIds(Delivered(enqueued)) => DistinctIds(tui.messages)

\* C36: whenever a conversation is selected, selected_conv_idx is an index of
\* the cached conversation list and the conversation there has the selected
\* id, also after the list was replaced by a watcher update.
C36_SelectionIndexValid ==
    tui.selected_chat_id # None =>
       /\ 0 <= tui.selected_conv_idx
       /\ tui.selected_conv_idx < Len(tui.conversations)
       /\ tui.conversations[tui.selected_conv_idx + 1].chat_id = tui.selected_chat_id

\* C37: a terminal resize leaves the input box as it was: the draft lines, the
\* cursor, the history and the history cursor.
C37_ResizeKeepsEditor ==
    [][Resized => input_box' = input_box]_vars

\* C38: while the narrow layout has no conversation-list window, the focus is
\* not the conversation list: at startup, after Tab and after a resize.
C38_HiddenListNeverFocused ==
    tui.conv_win = "None" => tui.focus # "conversations"

\* ------------------------------------- the application on its own watcher
\* run() and the watcher it starts, on one store: the initial load, start(),
\* the poll thread whose observers are the application's callbacks, and the
\* event loop with no key pressed. All messages are of conversation 1.
StoredMessages == [i \in 1..Len(store) |-> Message(i, 1)]

\* run(), the initial load: get_conversations() and _select_conversation(0).
RunLoad ==
    /\ loopPc = "init"
    /\ tui' = _select_conversation([tui EXCEPT !.conversations = <<Conversation(1)>>],
                                   0, StoredMessages)
    /\ loopPc' = "start"
    /\ UNCHANGED <<watcherVars, editVars, getch, update_queue, dispatch, enqueued, applied>>

\* run(): self.watcher.start(), after the load.
RunWatcherStart == loopPc = "start" /\ ~running /\ Start({TRUE})

\* run(), after start() has returned: the first draw_all(), then the loop.
RunDraw ==
    /\ loopPc = "start"
    /\ running
    /\ mainPc = "idle"
    /\ tui' = draw_all(tui)
    /\ loopPc' = "drain"
    /\ UNCHANGED <<watcherVars, editVars, getch, update_queue, dispatch, enqueued, applied>>

\* The batch of a fetch as the Message objects the callback gets.
AsMessages(ids) == [k \in DOMAIN ids |-> Message(ids[k], 1)]

\* Deliver with every read succeeding and _on_new_messages among the
\* observers: the batch is put on the update queue.
DeliverToQueue(t) ==
    /\ tpc[t] = "fetch"
    /\ \E new_messages \in get_new_messages(last_message_id) :
          IF new_messages # <<>>
          THEN /\ calls' = [calls EXCEPT ![t] = @ \o MsgCalls(1, new_messages, {})]
               /\ count' = Bump(count, Range(new_messages))
               /\ update_queue' = Append(update_queue, [type |-> "new_messages",
                                                        data |-> AsMessages(new_messages)])
               /\ enqueued' = Append(enqueued, [type |-> "new_messages",
                                                data |-> AsMessages(new_messages)])
          ELSE UNCHANGED <<calls, count, update_queue, enqueued>>
    /\ last_message_id' = current_max_id[t]
    /\ tpc' = [tpc EXCEPT ![t] = "convs"]
    /\ UNCHANGED <<storeVars, running, thread, last_mtime, mainPc,
                   current_max_id, starts, startHi, timedOut>>
    /\ UNCHANGED <<editVars, tui, getch, loopPc, dispatch, applied>>

\* Convs with the read succeeding and _on_conversations_updated among the
\* observers: the list is put on the update queue.
ConvsToQueue(t) ==
    /\ tpc[t] = "convs"
    /\ calls' = [calls EXCEPT ![t] = @ \o ConvCalls(1, get_conversations, {})]
    /\ tpc' = [tpc EXCEPT ![t] = "sleep"]
    /\ update_queue' = Append(update_queue, [type |-> "conversations",
                                             data |-> <<Conversation(1)>>])
    /\ enqueued' = Append(enqueued, [type |-> "conversations",
                                     data |-> <<Conversation(1)>>])
    /\ UNCHANGED <<storeVars, running, thread, last_message_id, last_mtime, mainPc,
                   current_max_id, starts, startHi, count, timedOut>>
    /\ UNCHANGED <<editVars, tui, getch, loopPc, dispatch, applied>>

AppThreadStep(t) ==
    \/ Poll(t, {TRUE})
    \/ ReadMax(t, {TRUE})
    \/ DeliverToQueue(t)
    \/ ConvsToQueue(t)
    \/ Sleep(t)

AppLoopStep ==
    \/ RunLoad
    \/ RunWatcherStart
    \/ StartThread({TRUE})
    \/ RunDraw
    \/ ProcessUpdate
    \/ Timeout

AppNext ==
    \/ StoreAppend({d \in 1..MaxDate : d \notin Range(store)})
    \/ AppLoopStep
    \/ \E t \in Threads : AppThreadStep(t)

\* The foreground thread and the poll thread are scheduled; the store is
\* written whenever another process does.
AppSpec ==
    /\ Init
    /\ [][AppNext]_vars
    /\ WF_vars(AppLoopStep)
    /\ \A t \in Threads : WF_vars(AppThreadStep(t))

\* Message i is in the application's message list.
Listed(i) == \E k \in DOMAIN tui.messages : tui.messages[k].message_id = i

\* C39: every message of the selected conversation that was in the store when
\* start() read its baseline, loaded by run() before or appended between the
\* load and that read, eventually is in the application's message list, with
\* no key pressed.
C39_StoredEventuallyListed ==
    \A i \in MsgIds : (loopPc = "drain" /\ i <= startHi) ~> Listed(i)

\* ------------------------------------------------ the editor fed by keys
\* Characters of a returned text that is pushed to the history, at most.
MaxReturned == 2

\* The caller pushes the text handle_key has just returned, as run() does
\* after a send.
PushReturned ==
    /\ ret # <<>>
    /\ Len(ret[1]) <= MaxReturned
    /\ Len(input_box.history) < MaxHist
    /\ input_box' = push_history(input_box, ret[1])
    /\ ret' = <<>>
    /\ trip' = NoTrip
    /\ UNCHANGED <<watcherVars, appVars>>

\* Every branch of handle_key, one key for each.
KeysTyped == {KEY_BACKSPACE, KEY_DC, KEY_LEFT, KEY_RIGHT, KEY_UP, KEY_DOWN, KEY_HOME,
              KEY_END, CTRL_U, CTRL_W, CTRL_K, "10", KEY_ENTER, TAB, ESCAPE, "a"}

KeysNext ==
    \/ EditKey(KeysTyped)
    \/ PushReturned
    \/ Clear

\* The editor from its empty state, given keys only, its history filled with
\* what it returned.
KeysSpec == Init /\ [][KeysNext]_vars

\* C40: from the empty editor, under keys alone and a history of returned
\* texts, the buffer is one line, the cursor on it, and no history entry has a
\* line break: the branches that join and cross lines are not reached.
C40_SingleLine ==
    /\ Len(input_box.lines) = 1
    /\ input_box.cursor_row = 0
    /\ \A h \in DOMAIN input_box.history :
          \A i \in DOMAIN input_box.history[h] : input_box.history[h][i] # NL
    /\ ret # <<>> => \A i \in DOMAIN ret[1] : ret[1][i] # NL

\* Two returned texts are in the history and the older one has been recalled
\* into the buffer by two up arrows.
C40_Witness ==
    /\ Len(input_box.history) = 2
    /\ input_box.history_idx = 0
    /\ input_box.lines = <<input_box.history[1]>>
    /\ Len(input_box.history[1]) = 2
    /\ input_box.cursor_col = 2

====
